---- MODULE Spec2Model ----
(***************************************************************************)
(* LSB image steganography engine of lab03 (src/lab03/src): bit codec,     *)
(* stream cipher, payload framer, channel mapper, embedding and extraction *)
(* engines.  An image file is modelled by what the image collaborator      *)
(* gives the engine: its mode, its size and its pixels in row-major order. *)
(* Files are stored losslessly; file sizes in bytes are not modelled.      *)
(***************************************************************************)
EXTENDS Integers, Sequences, FiniteSets, TLC

\* ------------------------------------------------------------------------
\* Bounds of the model
\* ------------------------------------------------------------------------

\* the longest message, in characters
MaxMessageLen == 1

\* the longest chain of hide_message calls, each on the output of the one
\* before
MaxChain == 2

\* ------------------------------------------------------------------------
\* Integer helpers for the bitwise operators of Python
\* ------------------------------------------------------------------------

RECURSIVE Pow2(_)
\* 1 << n
Pow2(n) == IF n <= 0 THEN 1 ELSE 2 * Pow2(n - 1)

RECURSIVE BitOr(_, _)
\* faulty variant: a | b
BitOr(a, b) ==
    IF a = 0 THEN b
    ELSE IF b = 0 THEN a
    ELSE (IF (a % 2) + (b % 2) > 0 THEN 1 ELSE 0) + 2 * BitOr(a \div 2, b \div 2)

RECURSIVE BitXor(_, _)
\* a ^ b on non-negative integers
BitXor(a, b) ==
    IF a = 0 THEN b
    ELSE IF b = 0 THEN a
    ELSE (((a % 2) + (b % 2)) % 2) + 2 * BitXor(a \div 2, b \div 2)

\* (value >> shift) & 1
BitAt(value, shift) == (value \div Pow2(shift)) % 2

\* value & mask, for a mask of the form (1 << n) - 1
AndMask(value, mask) == value % (mask + 1)

\* faulty variant: every bit of the value is cleared
AndNotMaskClearAll(value, mask) == 0

\* value & ~mask, for a mask of the form (1 << n) - 1
AndNotMask(value, mask) == value - (value % (mask + 1))

\* seq[from:to] of Python, for 0 <= from <= to
Slice(seq, from, to) ==
    SubSeq(seq, from + 1, IF to < Len(seq) THEN to ELSE Len(seq))

\* ------------------------------------------------------------------------
\* Text: a str is a sequence of code points, bytes are a sequence of 0..255
\* ------------------------------------------------------------------------

\* str.encode("utf-8") of one code point
EncodeCodePoint(cp) ==
    IF cp < 128 THEN <<cp>>
    ELSE IF cp < 2048 THEN <<192 + (cp \div 64), 128 + (cp % 64)>>
    ELSE IF cp < 65536
         THEN <<224 + (cp \div 4096), 128 + ((cp \div 64) % 64), 128 + (cp % 64)>>
    ELSE <<240 + (cp \div 262144), 128 + ((cp \div 4096) % 64),
           128 + ((cp \div 64) % 64), 128 + (cp % 64)>>

RECURSIVE Utf8Encode(_)
\* message.encode("utf-8")
Utf8Encode(text) ==
    IF text = <<>> THEN <<>>
    ELSE EncodeCodePoint(Head(text)) \o Utf8Encode(Tail(text))

IsCont(b) == b >= 128 /\ b <= 191

DecodeError == [ok |-> FALSE, text |-> <<>>]

RECURSIVE Utf8DecodeFrom(_, _, _)
\* bytes.decode("utf-8") with the default strict error handler: the decoded
\* text, or the failure UnicodeDecodeError
Utf8DecodeFrom(data, i, acc) ==
    IF i > Len(data) THEN [ok |-> TRUE, text |-> acc]
    ELSE LET b0 == data[i]
             n  == Len(data) - i
         IN  IF b0 < 128 THEN Utf8DecodeFrom(data, i + 1, Append(acc, b0))
             ELSE IF b0 >= 194 /\ b0 <= 223
                  THEN IF n >= 1 /\ IsCont(data[i + 1])
                       THEN Utf8DecodeFrom(data, i + 2,
                                Append(acc, (b0 - 192) * 64 + (data[i + 1] - 128)))
                       ELSE DecodeError
             ELSE IF b0 >= 224 /\ b0 <= 239
                  THEN IF /\ n >= 2
                          /\ IsCont(data[i + 1])
                          /\ IsCont(data[i + 2])
                          /\ (b0 = 224 => data[i + 1] >= 160)
                          /\ (b0 = 237 => data[i + 1] <= 159)
                       THEN Utf8DecodeFrom(data, i + 3,
                                Append(acc, (b0 - 224) * 4096
                                            + (data[i + 1] - 128) * 64
                                            + (data[i + 2] - 128)))
                       ELSE DecodeError
             ELSE IF b0 >= 240 /\ b0 <= 244
                  THEN IF /\ n >= 3
                          /\ IsCont(data[i + 1])
                          /\ IsCont(data[i + 2])
                          /\ IsCont(data[i + 3])
                          /\ (b0 = 240 => data[i + 1] >= 144)
                          /\ (b0 = 244 => data[i + 1] <= 143)
                       THEN Utf8DecodeFrom(data, i + 4,
                                Append(acc, (b0 - 240) * 262144
                                            + (data[i + 1] - 128) * 4096
                                            + (data[i + 2] - 128) * 64
                                            + (data[i + 3] - 128)))
                       ELSE DecodeError
             ELSE DecodeError

RECURSIVE Utf8DecodeIgnore(_)
\* faulty variant: decode("utf-8", errors="ignore") on the bytes of the model, the
\* bytes that are not ASCII being dropped
Utf8DecodeIgnore(data) ==
    IF data = <<>> THEN [ok |-> TRUE, text |-> <<>>]
    ELSE LET rest == Utf8DecodeIgnore(Tail(data))
         IN  [ok |-> TRUE,
              text |-> (IF Head(data) < 128 THEN <<Head(data)>> ELSE <<>>)
                       \o rest.text]

Utf8Decode(data) == Utf8DecodeFrom(data, 1, <<>>)

\* ------------------------------------------------------------------------
\* crypto.py
\* ------------------------------------------------------------------------

\* b"LSBMSG1"
HEADER_MAGIC == <<76, 83, 66, 77, 83, 71, 49>>

\* len(HEADER_MAGIC) + 4
HEADER_SIZE == Len(HEADER_MAGIC) + 4

\* A password argument: None, or a str
NoPassword == [given |-> FALSE, text |-> ""]
Pw(s) == [given |-> TRUE, text |-> s]

\* hashlib.sha256(seed + counter_bytes).digest() for the passwords of the
\* model; the digests are those of SHA-256 on the UTF-8 bytes of the
\* password followed by the 4-byte big-endian counter, for the counters 0,
\* 1 and 2
Sha256Digest(text, counter) ==
    IF text = "cp" /\ counter = 0
    THEN <<2, 150, 65, 166, 227, 25, 178, 230, 155, 100, 130, 24, 119, 134,
           41, 21, 3, 44, 188, 187, 165, 152, 168, 193, 10, 170, 200, 20,
           211, 62, 137, 89>>
    ELSE IF text = "cp" /\ counter = 1
    THEN <<160, 216, 84, 133, 20, 182, 84, 194, 249, 118, 45, 44, 136, 45,
           189, 154, 81, 40, 89, 64, 42, 129, 167, 208, 241, 160, 70, 40,
           108, 22, 6, 177>>
    ELSE IF text = "cp" /\ counter = 2
    THEN <<77, 148, 72, 151, 207, 191, 60, 13, 59, 66, 26, 220, 206, 171,
           140, 212, 105, 139, 119, 43, 66, 141, 110, 69, 46, 47, 38, 216,
           134, 72, 3, 110>>
    ELSE IF text = "eu" /\ counter = 0
    THEN <<2, 149, 6, 100, 74, 120, 36, 84, 187, 237, 4, 81, 102, 176, 101,
           144, 202, 153, 0, 112, 47, 118, 90, 169, 71, 39, 199, 18, 127,
           117, 202, 106>>
    ELSE IF text = "eu" /\ counter = 1
    THEN <<235, 241, 48, 217, 156, 110, 89, 115, 3, 7, 44, 122, 2, 17, 147,
           238, 63, 170, 161, 253, 170, 123, 124, 66, 250, 13, 218, 61,
           165, 37, 133, 105>>
    ELSE IF text = "eu" /\ counter = 2
    THEN <<186, 69, 89, 225, 52, 17, 209, 156, 176, 241, 192, 224, 60, 208,
           251, 95, 10, 194, 243, 167, 8, 43, 230, 250, 253, 85, 4, 112,
           186, 148, 104, 160>>
    ELSE <<>>

RECURSIVE KeyStreamLoopFixedCounter(_, _, _, _)
\* faulty variant: every block is the digest of counter 0
KeyStreamLoopFixedCounter(text, length, stream, counter) ==
    IF Len(stream) < length
    THEN KeyStreamLoopFixedCounter(text, length,
                                   stream \o Sha256Digest(text, 0), counter + 1)
    ELSE stream

RECURSIVE KeyStreamLoop(_, _, _, _)
\* the while loop of derive_key_stream
KeyStreamLoop(text, length, stream, counter) ==
    IF Len(stream) < length
    THEN KeyStreamLoop(text, length, stream \o Sha256Digest(text, counter),
                       counter + 1)
    ELSE stream

\* derive_key_stream(password, length)
derive_key_stream(text, length) ==
    SubSeq(KeyStreamLoop(text, length, <<>>, 0), 1, length)

\* xor_encrypt(data, password)
xor_encrypt(data, password) ==
    IF ~password.given \/ password.text = ""
    THEN data
    ELSE LET key_stream == derive_key_stream(password.text, Len(data))
         IN  [i \in 1..Len(data) |-> BitXor(data[i], key_stream[i])]

\* struct.pack(">I", n)
PackU32(n) ==
    <<(n \div 16777216) % 256, (n \div 65536) % 256, (n \div 256) % 256, n % 256>>

\* struct.unpack(">I", b)[0]
UnpackU32(b) == b[1] * 16777216 + b[2] * 65536 + b[3] * 256 + b[4]

\* faulty variant: the length field counts the characters of the message
build_payload_char_count(message, password) ==
    LET body      == Utf8Encode(message)
        encrypted == xor_encrypt(body, password)
        length_bytes == PackU32(Len(message))
    IN  HEADER_MAGIC \o length_bytes \o encrypted

\* faulty variant: the header is encrypted together with the body
build_payload_encrypt_all(message, password) ==
    LET body == Utf8Encode(message)
        length_bytes == PackU32(Len(body))
    IN  xor_encrypt(HEADER_MAGIC \o length_bytes \o body, password)

\* build_payload(message, password)
build_payload(message, password) ==
    LET body      == Utf8Encode(message)
        encrypted == xor_encrypt(body, password)
        length_bytes == PackU32(Len(encrypted))
    IN  HEADER_MAGIC \o length_bytes \o encrypted

\* faulty variant: the slice compared with the magic tag is one byte short
parse_header_short_slice(header_bytes) ==
    LET magic == Slice(header_bytes, 0, Len(HEADER_MAGIC) - 1)
    IN  IF magic # HEADER_MAGIC
        THEN [ok |-> FALSE, length |-> 0]
        ELSE [ok |-> TRUE,
              length |-> UnpackU32(Slice(header_bytes, Len(HEADER_MAGIC),
                                         HEADER_SIZE))]

\* parse_header(header_bytes): the declared length, or the ValueError
\* "no embedded payload"
parse_header(header_bytes) ==
    LET magic == Slice(header_bytes, 0, Len(HEADER_MAGIC))
    IN  IF magic # HEADER_MAGIC
        THEN [ok |-> FALSE, length |-> 0]
        ELSE [ok |-> TRUE,
              length |-> UnpackU32(Slice(header_bytes, Len(HEADER_MAGIC),
                                         HEADER_SIZE))]

\* faulty variant: the body is decoded with errors="ignore"
decrypt_payload_ignore(payload, password) ==
    Utf8DecodeIgnore(xor_encrypt(payload, password))

\* faulty variant: the body is decoded without being decrypted
decrypt_payload_raw(payload, password) == Utf8Decode(payload)

\* decrypt_payload(payload, password): the text, or UnicodeDecodeError
decrypt_payload(payload, password) ==
    LET decrypted == xor_encrypt(payload, password)
    IN  Utf8Decode(decrypted)

\* ------------------------------------------------------------------------
\* bits.py
\* ------------------------------------------------------------------------

\* BitReader(data): _data, _bit_length and _position
BitReader(data) == [data |-> data, bit_length |-> Len(data) * 8, position |-> 0]

\* BitReader.total_bits
total_bits(reader) == reader.bit_length

\* BitReader.remaining_bits
remaining_bits(reader) == reader.bit_length - reader.position

\* BitReader.has_bits
has_bits(reader) == reader.position < reader.bit_length

RECURSIVE ReadLoopLsbFirst(_, _, _, _)
\* faulty variant: the bits of a byte are taken from the least significant
\* one
ReadLoopLsbFirst(data, position, width, value) ==
    IF width = 0 THEN value
    ELSE LET byte_idx   == position \div 8
             bit_offset == position % 8
             bit        == BitAt(data[byte_idx + 1], bit_offset)
         IN  ReadLoopLsbFirst(data, position + 1, width - 1, value * 2 + bit)

RECURSIVE ReadLoop(_, _, _, _)
\* the for loop of BitReader.read: width bits from position, MSB first
ReadLoop(data, position, width, value) ==
    IF width = 0 THEN value
    ELSE LET byte_idx   == position \div 8
             bit_offset == 7 - (position % 8)
             bit        == BitAt(data[byte_idx + 1], bit_offset)
         IN  ReadLoop(data, position + 1, width - 1, value * 2 + bit)

\* faulty variant: a read that fails consumes the bits that were left
read_drain_on_failure(reader, width) ==
    IF remaining_bits(reader) < width
    THEN [ok |-> FALSE, value |-> 0,
          reader |-> [reader EXCEPT !.position = reader.bit_length]]
    ELSE [ok |-> TRUE,
          value |-> ReadLoop(reader.data, reader.position, width, 0),
          reader |-> [reader EXCEPT !.position = reader.position + width]]

\* faulty variant: an exhausted reader returns a chunk of zero bits
read_zero_chunk(reader, width) ==
    IF remaining_bits(reader) < width
    THEN [ok |-> TRUE, value |-> 0, reader |-> reader]
    ELSE [ok |-> TRUE,
          value |-> ReadLoop(reader.data, reader.position, width, 0),
          reader |-> [reader EXCEPT !.position = reader.position + width]]

\* BitReader.read(width): the chunk and the reader after the call; chunk is
\* None (ok = FALSE) when fewer than width bits remain
read(reader, width) ==
    IF remaining_bits(reader) < width
    THEN [ok |-> FALSE, value |-> 0, reader |-> reader]
    ELSE [ok |-> TRUE,
          value |-> ReadLoop(reader.data, reader.position, width, 0),
          reader |-> [reader EXCEPT !.position = reader.position + width]]

RECURSIVE GroupLoop(_, _, _, _)
\* accumulator = (accumulator << 1) | (bit & 1), over the next todo bits
GroupLoop(bits, cursor, todo, accumulator) ==
    IF todo = 0 THEN accumulator
    ELSE GroupLoop(bits, cursor + 1, todo - 1,
                   accumulator * 2 + (bits[cursor + 1] % 2))

RECURSIVE PackLoopPartial(_, _, _, _)
\* faulty variant: an exhausted source ends the loop and the bytes read so far are
\* returned
PackLoopPartial(bits, cursor, todo, result) ==
    IF todo = 0
    THEN [ok |-> TRUE, bytes |-> result, cursor |-> cursor]
    ELSE LET count == IF todo < 8 THEN todo ELSE 8
         IN  IF cursor + count > Len(bits)
             THEN [ok |-> TRUE, bytes |-> result, cursor |-> Len(bits)]
             ELSE LET accumulator == GroupLoop(bits, cursor, count, 0)
                  IN  PackLoopPartial(bits, cursor + count, todo - count,
                               Append(result, accumulator * Pow2(8 - count)))

RECURSIVE PackLoopNoPadding(_, _, _, _)
\* faulty variant: an incomplete last group is appended without the shift
PackLoopNoPadding(bits, cursor, todo, result) ==
    IF todo = 0
    THEN [ok |-> TRUE, bytes |-> result, cursor |-> cursor]
    ELSE LET count == IF todo < 8 THEN todo ELSE 8
         IN  IF cursor + count > Len(bits)
             THEN [ok |-> FALSE, bytes |-> <<>>, cursor |-> Len(bits)]
             ELSE LET accumulator == GroupLoop(bits, cursor, count, 0)
                  IN  PackLoopNoPadding(bits, cursor + count, todo - count,
                                        Append(result, accumulator))

RECURSIVE PackLoop(_, _, _, _)
\* the for loop of bits_to_bytes, one group of up to 8 bits at a time, and
\* the zero padding of an incomplete last group; cursor is the number of
\* bits the iterator has delivered so far.  The loop raises as soon as the
\* iterator is exhausted, whatever is left to read.
PackLoop(bits, cursor, todo, result) ==
    IF todo = 0
    THEN [ok |-> TRUE, bytes |-> result, cursor |-> cursor]
    ELSE LET count == IF todo < 8 THEN todo ELSE 8
         IN  IF cursor + count > Len(bits)
             THEN [ok |-> FALSE, bytes |-> <<>>, cursor |-> Len(bits)]
             ELSE LET accumulator == GroupLoop(bits, cursor, count, 0)
                  IN  PackLoop(bits, cursor + count, todo - count,
                               Append(result, accumulator * Pow2(8 - count)))

\* bits_to_bytes(bit_iterator, bit_count): the bytes and the iterator's
\* position after the call, or the ValueError of a source that ran out
bits_to_bytes(bits, cursor, bit_count) ==
    IF bit_count < 0
    THEN [ok |-> FALSE, bytes |-> <<>>, cursor |-> cursor]
    ELSE PackLoop(bits, cursor, bit_count, <<>>)

RECURSIVE ChunkBitsLsbFirst(_, _)
\* faulty variant: the bits of a chunk least significant first
ChunkBitsLsbFirst(chunk, shift) ==
    IF shift < 0 THEN <<>>
    ELSE ChunkBitsLsbFirst(chunk, shift - 1) \o <<BitAt(chunk, shift)>>

RECURSIVE ChunkBits(_, _)
\* the innermost loop of extract_lsb_bits: the bits of a chunk, MSB first
ChunkBits(chunk, shift) ==
    IF shift < 0 THEN <<>>
    ELSE <<BitAt(chunk, shift)>> \o ChunkBits(chunk, shift - 1)

RECURSIVE PixelBitsDescending(_, _, _, _)
\* faulty variant: the channels of a pixel are read from the last index to
\* the first
PixelBitsDescending(pixel, channel_indexes, k, bits_per_channel) ==
    IF k > Len(channel_indexes) THEN <<>>
    ELSE LET mask  == Pow2(bits_per_channel) - 1
             chunk == AndMask(pixel[channel_indexes[k] + 1], mask)
         IN  PixelBitsDescending(pixel, channel_indexes, k + 1, bits_per_channel)
             \o ChunkBits(chunk, bits_per_channel - 1)

RECURSIVE PixelBits(_, _, _, _)
\* the loop over channel_indexes of extract_lsb_bits, for one pixel
PixelBits(pixel, channel_indexes, k, bits_per_channel) ==
    IF k > Len(channel_indexes) THEN <<>>
    ELSE LET mask  == Pow2(bits_per_channel) - 1
             chunk == AndMask(pixel[channel_indexes[k] + 1], mask)
         IN  ChunkBits(chunk, bits_per_channel - 1)
             \o PixelBits(pixel, channel_indexes, k + 1, bits_per_channel)

RECURSIVE LsbBitsFrom(_, _, _, _)
LsbBitsFrom(pixel_data, i, channel_indexes, bits_per_channel) ==
    IF i > Len(pixel_data) THEN <<>>
    ELSE PixelBits(pixel_data[i], channel_indexes, 1, bits_per_channel)
         \o LsbBitsFrom(pixel_data, i + 1, channel_indexes, bits_per_channel)

\* extract_lsb_bits(pixel_data, channel_indexes, bits_per_channel): every
\* bit the generator yields, in order
extract_lsb_bits(pixel_data, channel_indexes, bits_per_channel) ==
    LsbBitsFrom(pixel_data, 1, channel_indexes, bits_per_channel)

\* ------------------------------------------------------------------------
\* models.py
\* ------------------------------------------------------------------------

\* faulty variant: the width is taken twice
total_pixels_square(metadata) == metadata.width * metadata.width

\* ImageMetadata.total_pixels
total_pixels(metadata) == metadata.width * metadata.height

\* ImageMetadata.channels_count
channels_count(metadata) == Len(metadata.embed_indexes)

\* faulty variant: the alpha band of the mode is counted as a channel
capacity_bits_with_alpha(metadata, bits_per_channel) ==
    total_pixels(metadata) * (IF metadata.mode = "RGBA" THEN 4 ELSE 3)
    * bits_per_channel

\* ImageMetadata.capacity_bits(bits_per_channel)
capacity_bits(metadata, bits_per_channel) ==
    total_pixels(metadata) * channels_count(metadata) * bits_per_channel

\* EmbedReport.payload_bytes
payload_bytes(report) == report.payload_bits \div 8

\* ------------------------------------------------------------------------
\* The image collaborator (PIL): an image is its mode, its size and its
\* pixels in row-major order, a pixel being the tuple of its band values
\* ------------------------------------------------------------------------

\* a path at which no file exists
NoFile == [mode |-> "none", width |-> 0, height |-> 0, data |-> <<>>]

\* Image.getbands()
getbands(image) ==
    IF image.mode = "L" THEN <<"L">>
    ELSE IF image.mode = "LA" THEN <<"L", "A">>
    ELSE IF image.mode = "RGB" THEN <<"R", "G", "B">>
    ELSE <<"R", "G", "B", "A">>

\* Image.convert(mode) of one pixel, for mode RGB or RGBA: a grey value is
\* repeated on R, G and B, a missing alpha is opaque, an alpha the target
\* mode does not have is dropped
ConvertPixel(from, to, pixel) ==
    LET rgb   == IF from \in {"L", "LA"} THEN <<pixel[1], pixel[1], pixel[1]>>
                 ELSE <<pixel[1], pixel[2], pixel[3]>>
        alpha == IF from = "LA" THEN pixel[2]
                 ELSE IF from = "RGBA" THEN pixel[4]
                 ELSE 255
    IN  IF to = "RGBA" THEN Append(rgb, alpha) ELSE rgb

\* Image.convert(mode)
convert(image, mode) ==
    [mode |-> mode, width |-> image.width, height |-> image.height,
     data |-> [i \in 1..Len(image.data) |->
                  ConvertPixel(image.mode, mode, image.data[i])]]

\* ------------------------------------------------------------------------
\* steganography.py
\* ------------------------------------------------------------------------

MIN_BITS_PER_CHANNEL == 1
MAX_BITS_PER_CHANNEL == 2
\* faulty variant: no band is taken for an alpha band
ALPHA_BANDS_EMPTY == {}

ALPHA_BANDS == {"A"}

\* faulty variant: the upper limit is not checked
_validate_bits_per_channel_min_only(value) == MIN_BITS_PER_CHANNEL <= value

\* _validate_bits_per_channel(value): TRUE when the value is returned,
\* FALSE when ValueError is raised
_validate_bits_per_channel(value) ==
    MIN_BITS_PER_CHANNEL <= value /\ value <= MAX_BITS_PER_CHANNEL

RECURSIVE EmbedIndexesAll(_, _)
\* faulty variant: the alpha band is not filtered out
EmbedIndexesAll(bands, idx) ==
    IF idx >= Len(bands) THEN <<>>
    ELSE <<idx>> \o EmbedIndexesAll(bands, idx + 1)

RECURSIVE EmbedIndexes(_, _)
\* the generator of _prepare_image: the 0-based indexes of the bands that
\* are not alpha, in band order
EmbedIndexes(bands, idx) ==
    IF idx >= Len(bands) THEN <<>>
    ELSE (IF bands[idx + 1] \notin ALPHA_BANDS THEN <<idx>> ELSE <<>>)
         \o EmbedIndexes(bands, idx + 1)

\* _prepare_image(image): the working image and its metadata
_prepare_image(image) ==
    LET mode == IF \E k \in 1..Len(getbands(image)) : getbands(image)[k] = "A"
                THEN "RGBA" ELSE "RGB"
        converted == convert(image, mode)
    IN  [working |-> converted,
         metadata |-> [width |-> converted.width,
                       height |-> converted.height,
                       mode |-> mode,
                       embed_indexes |-> EmbedIndexes(getbands(converted), 0)]]

\* faulty variant: the payload is measured in bytes
ExceedsCapacityInBytes(payload_bits, capacity) == payload_bits \div 8 > capacity

\* the capacity pre-check of hide_message
ExceedsCapacity(payload_bits, capacity) == payload_bits > capacity

RECURSIVE EmbedChannelsOr(_, _, _, _, _, _)
\* faulty variant: the chunk is OR-ed into the channel, whose low bits are
\* not cleared first
EmbedChannelsOr(pixel_list, embed_indexes, k, reader, bits_per_channel, pixel_changed) ==
    IF k > Len(embed_indexes)
    THEN [pixel |-> pixel_list, reader |-> reader, changed |-> pixel_changed]
    ELSE LET channel_idx == embed_indexes[k]
             chunk == read(reader, bits_per_channel)
         IN  IF ~chunk.ok
             THEN [pixel |-> pixel_list, reader |-> reader, changed |-> pixel_changed]
             ELSE LET new_value == BitOr(pixel_list[channel_idx + 1], chunk.value)
                  IN  EmbedChannelsOr(
                          [pixel_list EXCEPT ![channel_idx + 1] = new_value],
                          embed_indexes, k + 1, chunk.reader, bits_per_channel,
                          pixel_changed \/ new_value # pixel_list[channel_idx + 1])

RECURSIVE EmbedChannelsCountWritten(_, _, _, _, _, _)
\* faulty variant: a pixel counts as changed as soon as a chunk is written
\* to one of its channels
EmbedChannelsCountWritten(pixel_list, embed_indexes, k, reader, bits_per_channel, pixel_changed) ==
    IF k > Len(embed_indexes)
    THEN [pixel |-> pixel_list, reader |-> reader, changed |-> pixel_changed]
    ELSE LET channel_idx == embed_indexes[k]
             mask  == Pow2(bits_per_channel) - 1
             chunk == read(reader, bits_per_channel)
         IN  IF ~chunk.ok
             THEN [pixel |-> pixel_list, reader |-> reader, changed |-> pixel_changed]
             ELSE LET new_value ==
                          AndNotMask(pixel_list[channel_idx + 1], mask) + chunk.value
                  IN  EmbedChannelsCountWritten(
                          [pixel_list EXCEPT ![channel_idx + 1] = new_value],
                          embed_indexes, k + 1, chunk.reader, bits_per_channel,
                          TRUE)

RECURSIVE EmbedChannelsShifted(_, _, _, _, _, _)
\* faulty variant: the chunk is written one bit above the low bits
EmbedChannelsShifted(pixel_list, embed_indexes, k, reader, bits_per_channel, pixel_changed) ==
    IF k > Len(embed_indexes)
    THEN [pixel |-> pixel_list, reader |-> reader, changed |-> pixel_changed]
    ELSE LET channel_idx == embed_indexes[k]
             mask  == 2 * (Pow2(bits_per_channel) - 1)
             chunk == read(reader, bits_per_channel)
         IN  IF ~chunk.ok
             THEN [pixel |-> pixel_list, reader |-> reader, changed |-> pixel_changed]
             ELSE LET old_value == pixel_list[channel_idx + 1]
                      new_value == old_value - AndMask(old_value, mask + 1)
                                   + AndMask(old_value, 1) + 2 * chunk.value
                  IN  EmbedChannelsShifted(
                          [pixel_list EXCEPT ![channel_idx + 1] = new_value],
                          embed_indexes, k + 1, chunk.reader, bits_per_channel,
                          pixel_changed \/ new_value # old_value)

RECURSIVE EmbedChannels(_, _, _, _, _, _)
\* the loop over metadata.embed_indexes of hide_message, for one pixel
EmbedChannels(pixel_list, embed_indexes, k, reader, bits_per_channel, pixel_changed) ==
    IF k > Len(embed_indexes)
    THEN [pixel |-> pixel_list, reader |-> reader, changed |-> pixel_changed]
    ELSE LET channel_idx == embed_indexes[k]
             mask  == Pow2(bits_per_channel) - 1
             chunk == read(reader, bits_per_channel)
         IN  IF ~chunk.ok
             THEN [pixel |-> pixel_list, reader |-> reader, changed |-> pixel_changed]
             ELSE LET new_value ==
                          AndNotMask(pixel_list[channel_idx + 1], mask) + chunk.value
                  IN  EmbedChannels(
                          [pixel_list EXCEPT ![channel_idx + 1] = new_value],
                          embed_indexes, k + 1, chunk.reader, bits_per_channel,
                          pixel_changed \/ new_value # pixel_list[channel_idx + 1])

\* progress_callback=None, and the callbacks a caller may pass: one that
\* returns and one that raises
NoCallback == [given |-> FALSE, raises |-> FALSE]
ReturningCallback == [given |-> TRUE, raises |-> FALSE]
RaisingCallback == [given |-> TRUE, raises |-> TRUE]

\* "if progress_callback and idx % 10000 == 0"
ProgressDue(progress_callback, idx) ==
    progress_callback.given /\ idx % 10000 = 0

RECURSIVE EmbedPixelsCountVisited(_, _, _, _, _, _, _, _)
\* faulty variant: every pixel the loop visits is counted
EmbedPixelsCountVisited(pixels, idx, embed_indexes, reader, bits_per_channel, pixels_touched, progress_callback, calls) ==
    IF idx >= Len(pixels) \/ ~has_bits(reader)
    THEN [pixels |-> pixels, reader |-> reader, pixels_touched |-> pixels_touched,
          calls |-> calls, raised |-> FALSE]
    ELSE IF ProgressDue(progress_callback, idx) /\ progress_callback.raises
    THEN [pixels |-> pixels, reader |-> reader, pixels_touched |-> pixels_touched,
          calls |-> Append(calls, <<idx, Len(pixels)>>), raised |-> TRUE]
    ELSE LET done == EmbedChannels(pixels[idx + 1], embed_indexes, 1, reader,
                                   bits_per_channel, FALSE)
         IN  EmbedPixelsCountVisited(
                 IF done.changed THEN [pixels EXCEPT ![idx + 1] = done.pixel]
                 ELSE pixels,
                 idx + 1, embed_indexes, done.reader, bits_per_channel,
                 pixels_touched + 1, progress_callback,
                 IF ProgressDue(progress_callback, idx)
                 THEN Append(calls, <<idx, Len(pixels)>>) ELSE calls)

RECURSIVE EmbedPixels(_, _, _, _, _, _, _, _)
\* the loop over the pixels of hide_message: the pixels, the reader and the
\* count after the loop, the calls of progress_callback(idx, total_pixels)
\* made, and whether the last of them raised, which ends the loop
EmbedPixels(pixels, idx, embed_indexes, reader, bits_per_channel, pixels_touched, progress_callback, calls) ==
    IF idx >= Len(pixels) \/ ~has_bits(reader)
    THEN [pixels |-> pixels, reader |-> reader, pixels_touched |-> pixels_touched,
          calls |-> calls, raised |-> FALSE]
    ELSE IF ProgressDue(progress_callback, idx) /\ progress_callback.raises
    THEN [pixels |-> pixels, reader |-> reader, pixels_touched |-> pixels_touched,
          calls |-> Append(calls, <<idx, Len(pixels)>>), raised |-> TRUE]
    ELSE LET done == EmbedChannels(pixels[idx + 1], embed_indexes, 1, reader,
                                   bits_per_channel, FALSE)
         IN  EmbedPixels(
                 IF done.changed THEN [pixels EXCEPT ![idx + 1] = done.pixel]
                 ELSE pixels,
                 idx + 1, embed_indexes, done.reader, bits_per_channel,
                 IF done.changed THEN pixels_touched + 1 ELSE pixels_touched,
                 progress_callback,
                 IF ProgressDue(progress_callback, idx)
                 THEN Append(calls, <<idx, Len(pixels)>>) ELSE calls)

NoReport ==
    [payload_bits |-> 0, capacity_bits |-> 0, total_pixels |-> 0,
     channels_used |-> 0, bits_per_channel |-> 0, pixels_touched |-> 0]

\* the outcome of a hide_message call that raised: the exception, what the
\* call had done by then, and the payload if it was built
HideFailed(kind, events, payload) ==
    [kind |-> kind, report |-> NoReport, events |-> events, encoded |-> NoFile,
     payload |-> payload, calls |-> <<>>]

\* hide_message(input_image, output_image, message, password=...,
\* bits_per_channel=..., progress_callback=...) on the files of disk: the
\* EmbedReport or the exception, the image saved at output_image, the calls
\* made in order, and the calls of the progress callback.  An exception
\* raised by the callback is not caught and ends the call.
hide_message_progress(disk, input_image, message, password, bits_per_channel, progress_callback) ==
    IF ~_validate_bits_per_channel(bits_per_channel)
    THEN HideFailed("validation_error", <<"validate">>, <<>>)
    ELSE
    LET payload      == build_payload(message, password)
        bit_reader   == BitReader(payload)
        payload_bits == total_bits(bit_reader)
    IN  IF disk[input_image] = NoFile
        THEN HideFailed("os_error", <<"validate", "build_payload", "open">>, payload)
        ELSE
        LET prepared == _prepare_image(disk[input_image])
            working  == prepared.working
            metadata == prepared.metadata
            capacity == capacity_bits(metadata, bits_per_channel)
        IN  IF metadata.embed_indexes = <<>>
            THEN HideFailed("no_channels_error",
                            <<"validate", "build_payload", "open">>, payload)
            ELSE IF ExceedsCapacity(payload_bits, capacity)
            THEN HideFailed("capacity_error",
                            <<"validate", "build_payload", "open">>, payload)
            ELSE
            LET walk == EmbedPixels(working.data, 0, metadata.embed_indexes,
                                    bit_reader, bits_per_channel, 0,
                                    progress_callback, <<>>)
            IN  IF walk.raised
                THEN [HideFailed("callback_error",
                                 <<"validate", "build_payload", "open", "getdata">>,
                                 payload) EXCEPT !.calls = walk.calls]
                ELSE IF has_bits(walk.reader)
                THEN [HideFailed("internal_error",
                                 <<"validate", "build_payload", "open", "getdata">>,
                                 payload) EXCEPT !.calls = walk.calls]
                ELSE [kind |-> "report",
                      report |-> [payload_bits |-> payload_bits,
                                  capacity_bits |-> capacity,
                                  total_pixels |-> total_pixels(metadata),
                                  channels_used |-> channels_count(metadata),
                                  bits_per_channel |-> bits_per_channel,
                                  pixels_touched |-> walk.pixels_touched],
                      events |-> <<"validate", "build_payload", "open",
                                   "getdata", "putdata", "save">>,
                      encoded |-> [mode |-> working.mode,
                                   width |-> working.width,
                                   height |-> working.height,
                                   data |-> walk.pixels],
                      payload |-> payload,
                      calls |-> walk.calls]

\* hide_message called without progress_callback, which defaults to None
hide_message(disk, input_image, message, password, bits_per_channel) ==
    hide_message_progress(disk, input_image, message, password,
                          bits_per_channel, NoCallback)

\* the outcome of an extract_message call that raised
ExtractFailed(kind, events) == [kind |-> kind, text |-> <<>>, events |-> events]

\* extract_message(encoded_image, password=..., bits_per_channel=...): the
\* text or the exception, and the calls made in order
extract_message(disk, encoded_image, password, bits_per_channel) ==
    IF ~_validate_bits_per_channel(bits_per_channel)
    THEN ExtractFailed("validation_error", <<"validate">>)
    ELSE IF disk[encoded_image] = NoFile
    THEN ExtractFailed("os_error", <<"validate", "open">>)
    ELSE
    LET prepared == _prepare_image(disk[encoded_image])
        working  == prepared.working
        metadata == prepared.metadata
    IN  IF metadata.embed_indexes = <<>>
        THEN ExtractFailed("no_channels_error", <<"validate", "open">>)
        ELSE
        LET bit_stream == extract_lsb_bits(working.data, metadata.embed_indexes,
                                           bits_per_channel)
            header_bits == HEADER_SIZE * 8
            header == bits_to_bytes(bit_stream, 0, header_bits)
        IN  IF ~header.ok
            THEN ExtractFailed("truncated", <<"validate", "open", "getdata">>)
            ELSE
            LET payload_length == parse_header(header.bytes)
            IN  IF ~payload_length.ok
                THEN ExtractFailed("no_payload", <<"validate", "open", "getdata">>)
                ELSE
                LET payload_bits == payload_length.length * 8
                    body == bits_to_bytes(bit_stream, header.cursor, payload_bits)
                IN  IF ~body.ok
                    THEN ExtractFailed("truncated",
                                       <<"validate", "open", "getdata">>)
                    ELSE
                    LET decoded == decrypt_payload(body.bytes, password)
                    IN  IF ~decoded.ok
                        THEN ExtractFailed("decode_error",
                                           <<"validate", "open", "getdata">>)
                        ELSE [kind |-> "text", text |-> decoded.text,
                              events |-> <<"validate", "open", "getdata">>]

\* DiffReport before any pixel was compared
NoDiffReport ==
    [total_channels |-> 0, changed_channels |-> 0,
     avg_abs_diff |-> [num |-> 0, den |-> 1], max_abs_diff |-> 0]

\* faulty variant: the height is not compared
SizesDifferWidthOnly(original, modified) == original.width # modified.width

\* original.size != modified.size
SizesDiffer(original, modified) ==
    <<original.width, original.height>> # <<modified.width, modified.height>>

\* faulty variant: every channel counts as changed
IsChangedAlways(diff) == diff >= 0

\* "if diff:" in the loop of analyze_images
IsChanged(diff) == diff # 0

RECURSIVE DiffChannelsSigned(_, _, _, _)
\* faulty variant: the difference keeps its sign
DiffChannelsSigned(orig_pixel, mod_pixel, k, acc) ==
    IF k > Len(orig_pixel) \/ k > Len(mod_pixel) THEN acc
    ELSE LET diff == orig_pixel[k] - mod_pixel[k]
         IN  DiffChannelsSigned(orig_pixel, mod_pixel, k + 1,
                 IF IsChanged(diff)
                 THEN [changed_channels |-> acc.changed_channels + 1,
                       total_diff |-> acc.total_diff + diff,
                       max_diff |-> IF diff > acc.max_diff THEN diff
                                    ELSE acc.max_diff]
                 ELSE acc)

RECURSIVE DiffChannels(_, _, _, _)
\* the loop over zip(orig_pixel, mod_pixel) of analyze_images
DiffChannels(orig_pixel, mod_pixel, k, acc) ==
    IF k > Len(orig_pixel) \/ k > Len(mod_pixel) THEN acc
    ELSE LET delta == orig_pixel[k] - mod_pixel[k]
             diff  == IF delta < 0 THEN -delta ELSE delta
         IN  DiffChannels(orig_pixel, mod_pixel, k + 1,
                 IF IsChanged(diff)
                 THEN [changed_channels |-> acc.changed_channels + 1,
                       total_diff |-> acc.total_diff + diff,
                       max_diff |-> IF diff > acc.max_diff THEN diff
                                    ELSE acc.max_diff]
                 ELSE acc)

RECURSIVE DiffPixels(_, _, _)
\* the loop over zip(original_rgb.getdata(), modified_rgb.getdata()): the
\* count, the sum and the maximum over the pixels from i on
DiffPixels(orig_data, mod_data, i) ==
    IF i > Len(orig_data) \/ i > Len(mod_data)
    THEN [changed_channels |-> 0, total_diff |-> 0, max_diff |-> 0]
    ELSE LET here == DiffChannels(orig_data[i], mod_data[i], 1,
                                  [changed_channels |-> 0, total_diff |-> 0,
                                   max_diff |-> 0])
             rest == DiffPixels(orig_data, mod_data, i + 1)
         IN  [changed_channels |-> here.changed_channels + rest.changed_channels,
              total_diff |-> here.total_diff + rest.total_diff,
              max_diff |-> IF here.max_diff > rest.max_diff THEN here.max_diff
                           ELSE rest.max_diff]

\* the outcome of an analyze_images call that raised
AnalyzeFailed(kind, events) ==
    [kind |-> kind, report |-> NoDiffReport, events |-> events]

\* analyze_images(original_path, modified_path) on the files of disk: the
\* DiffReport or the exception, and the calls made in order.  The average is
\* kept as the fraction total_diff / changed_channels; the two file sizes of
\* the report are those of the encoded files and are left out.
analyze_images(disk, original_path, modified_path) ==
    IF disk[original_path] = NoFile
    THEN AnalyzeFailed("os_error", <<"open">>)
    ELSE IF disk[modified_path] = NoFile
    THEN AnalyzeFailed("os_error", <<"open", "open">>)
    ELSE
    LET original == disk[original_path]
        modified == disk[modified_path]
    IN  IF SizesDiffer(original, modified)
        THEN AnalyzeFailed("size_error", <<"open", "open">>)
        ELSE
        LET original_rgb == convert(original, "RGB")
            modified_rgb == convert(modified, "RGB")
            sums == DiffPixels(original_rgb.data, modified_rgb.data, 1)
            total_channels == original_rgb.width * original_rgb.height
                              * Len(getbands(original_rgb))
        IN  [kind |-> "report",
             report |-> [total_channels |-> total_channels,
                         changed_channels |-> sums.changed_channels,
                         avg_abs_diff |->
                             IF sums.changed_channels # 0
                             THEN [num |-> sums.total_diff,
                                   den |-> sums.changed_channels]
                             ELSE [num |-> 0, den |-> 1],
                         max_abs_diff |-> sums.max_diff],
             events |-> <<"open", "open", "convert", "convert", "getdata",
                          "getdata">>]

\* ------------------------------------------------------------------------
\* The inputs of the model
\* ------------------------------------------------------------------------

\* the image files a run starts from: 8x4 RGBA, 4x4 greyscale, and an 8x4
\* RGB image never produced by hide_message whose lowest bits spell the
\* magic tag, a declared length of 5 bytes and a single body byte
CoverRGBA ==
    [mode |-> "RGBA", width |-> 8, height |-> 4,
     data |-> [i \in 1..32 |->
                 <<(37 * i + 11) % 256, (91 * i + 200) % 256, (53 * i + 7) % 256,
                   255 - (5 * i)>>]]

CoverGray ==
    [mode |-> "L", width |-> 4, height |-> 4,
     data |-> [i \in 1..16 |-> <<(29 * i + 3) % 256>>]]

ForeignBytes == HEADER_MAGIC \o PackU32(5) \o <<65>>

CoverForeign ==
    [mode |-> "RGB", width |-> 8, height |-> 4,
     data |-> [i \in 1..32 |->
                 [c \in 1..3 |->
                     2 * ((61 * i + 17 * c) % 128)
                     + ReadLoop(ForeignBytes, 3 * (i - 1) + (c - 1), 1, 0)]]]

Covers == {CoverRGBA, CoverGray, CoverForeign}

Paths == {"cover.png", "stego.png"}

\* "A" (1 byte of UTF-8) and e-acute (2 bytes of UTF-8)
Alphabet == {65, 233}

\* the messages: every text over the alphabet, the empty one included
Messages == UNION {[1..k -> Alphabet] : k \in 0..MaxMessageLen}

\* None, "", and two passwords whose key streams agree on their first byte
Passwords == {NoPassword, Pw(""), Pw("cp"), Pw("eu")}

BitsPerChannelArgs == {0, 1, 2, 3}

\* ------------------------------------------------------------------------
\* The state machine: the files on disk and the calls of the engine
\* ------------------------------------------------------------------------

VARIABLES
    fs,      \* path -> the image file stored there, or NoFile
    hidden,  \* path -> the arguments of the hide_message call that wrote it
    last     \* the call that just ended: its arguments, its outcome (a
             \* report, a text or the exception raised), the calls it made
             \* in order, the payload or header bytes it built or was
             \* given, and the length it parsed

vars == <<fs, hidden, last>>

NoEmbed ==
    [applied |-> FALSE, message |-> <<>>, password |-> NoPassword,
     bits_per_channel |-> 0]

NoCall ==
    [op |-> "none", input |-> "", output |-> "", message |-> <<>>,
     password |-> NoPassword, bits_per_channel |-> 0, kind |-> "none",
     text |-> <<>>, report |-> NoReport, events |-> <<>>, bytes |-> <<>>,
     length |-> 0]

Init ==
    /\ \E cover \in Covers :
           fs = [p \in Paths |-> IF p = "cover.png" THEN cover ELSE NoFile]
    /\ hidden = [p \in Paths |-> NoEmbed]
    /\ last = NoCall

\* one call of hide_message from the menu; encoded.save(target) writes the
\* output file only when the call reaches it
Hide(input_image, output_image, message, password, bits_per_channel) ==
    /\ last.op = "none"
    /\ LET r == hide_message(fs, input_image, message, password, bits_per_channel)
       IN  /\ fs' = IF r.kind = "report"
                    THEN [fs EXCEPT ![output_image] = r.encoded]
                    ELSE fs
           /\ hidden' = IF r.kind = "report"
                        THEN [hidden EXCEPT ![output_image] =
                                 [applied |-> TRUE, message |-> message,
                                  password |-> password,
                                  bits_per_channel |-> bits_per_channel]]
                        ELSE hidden
           /\ last' = [op |-> "hide", input |-> input_image,
                       output |-> output_image, message |-> message,
                       password |-> password,
                       bits_per_channel |-> bits_per_channel,
                       kind |-> r.kind, text |-> <<>>, report |-> r.report,
                       events |-> r.events, bytes |-> r.payload, length |-> 0]

\* one call of extract_message from the menu
Extract(encoded_image, password, bits_per_channel) ==
    /\ last.op = "none"
    /\ LET r == extract_message(fs, encoded_image, password, bits_per_channel)
       IN  last' = [op |-> "extract", input |-> encoded_image, output |-> "",
                    message |-> <<>>, password |-> password,
                    bits_per_channel |-> bits_per_channel,
                    kind |-> r.kind, text |-> r.text, report |-> NoReport,
                    events |-> r.events, bytes |-> <<>>, length |-> 0]
    /\ UNCHANGED <<fs, hidden>>

\* the action has ended, with a result or an exception, and the loop of
\* main shows the menu again
ShowMenu ==
    /\ last.op # "none"
    /\ last' = NoCall
    /\ UNCHANGED <<fs, hidden>>

\* hide_message reads the cover and writes the stego file
Next ==
    \/ \E m \in Messages, p \in Passwords, n \in BitsPerChannelArgs :
          Hide("cover.png", "stego.png", m, p, n)
    \/ \E e \in Paths, p \in Passwords, n \in BitsPerChannelArgs :
          Extract(e, p, n)
    \/ ShowMenu

Spec == Init /\ [][Next]_vars

\* ------------------------------------------------------------------------
\* The payload framer on its own: build_payload, then parse_header on the
\* header it built or on a header damaged in one byte of the tag and in one
\* byte of the length
\* ------------------------------------------------------------------------

\* the byte values written over a header byte
ByteSamples == {0, 1, 77, 127}

InitFrame ==
    /\ fs = [p \in Paths |-> NoFile]
    /\ hidden = [p \in Paths |-> NoEmbed]
    /\ last = NoCall

\* one call of build_payload
BuildPayload(message, password) ==
    /\ last.op = "none"
    /\ last' = [NoCall EXCEPT !.op = "build_payload", !.message = message,
                              !.password = password, !.kind = "bytes",
                              !.bytes = build_payload(message, password)]
    /\ UNCHANGED <<fs, hidden>>

\* one call of parse_header on the first HEADER_SIZE bytes of the payload
\* just built, in which byte k of the tag (none when k = 0) is replaced by v
\* and byte j of the length (none when j = 0) by w
ParseHeader(k, v, j, w) ==
    /\ last.op = "build_payload"
    /\ LET built == Slice(last.bytes, 0, HEADER_SIZE)
           header_bytes ==
               [i \in 1..HEADER_SIZE |->
                   IF i = k THEN v ELSE IF i = j THEN w ELSE built[i]]
           r == parse_header(header_bytes)
       IN  last' = [last EXCEPT !.op = "parse_header",
                                !.bytes = header_bytes,
                                !.kind = IF r.ok THEN "length" ELSE "no_payload",
                                !.length = r.length]
    /\ UNCHANGED <<fs, hidden>>

NextFrame ==
    \/ \E m \in Messages, p \in Passwords : BuildPayload(m, p)
    \/ \E k \in 0..7, v \in ByteSamples, j \in {0, 8, 11}, w \in ByteSamples :
          ParseHeader(k, v, j, w)
    \/ ShowMenu

SpecFrame == InitFrame /\ [][NextFrame]_vars

\* ------------------------------------------------------------------------
\* The image comparison: analyze_images on any two of the files, which may
\* be unrelated images of different sizes or a cover and the stego file
\* hide_message wrote from it
\* ------------------------------------------------------------------------

\* a 4x2 greyscale image with an alpha band
CoverGrayAlpha ==
    [mode |-> "LA", width |-> 4, height |-> 2,
     data |-> [i \in 1..8 |-> <<(29 * i + 3) % 256, 255 - (9 * i)>>]]

DiffImages == Covers \cup {CoverGrayAlpha}

InitDiff ==
    /\ \E cover \in DiffImages, other \in DiffImages \cup {NoFile} :
           fs = [p \in Paths |-> IF p = "cover.png" THEN cover ELSE other]
    /\ hidden = [p \in Paths |-> NoEmbed]
    /\ last = NoCall

\* one call of analyze_images from the menu
Analyze(original_path, modified_path) ==
    /\ last.op = "none"
    /\ LET r == analyze_images(fs, original_path, modified_path)
       IN  last' = [NoCall EXCEPT !.op = "analyze", !.input = original_path,
                                  !.output = modified_path, !.kind = r.kind,
                                  !.report = r.report, !.events = r.events]
    /\ UNCHANGED <<fs, hidden>>

NextDiff ==
    \/ \E m \in Messages, n \in {1, 2} :
          Hide("cover.png", "stego.png", m, NoPassword, n)
    \/ \E a \in Paths, b \in Paths : Analyze(a, b)
    \/ ShowMenu

SpecDiff == InitDiff /\ [][NextDiff]_vars

\* ------------------------------------------------------------------------
\* The bit codec on its own: one BitReader and a sequence of read calls on
\* it, or one bit iterator and a sequence of bits_to_bytes calls on it.
\* Here last holds the object, the arguments and the result of the call
\* that just ended, and the cursor the object had before the call.
\* ------------------------------------------------------------------------

\* the byte strings given to BitReader
Buffers ==
    {<<>>, <<165>>, <<90, 195, 60>>, <<18, 52, 86, 120, 154>>,
     <<127, 255, 255, 255, 255>>}

\* the widths given to read
Widths == {0, 1, 2, 3, 5, 8, 13, 16, 31, 32}

\* the bit iterators given to bits_to_bytes: those extract_message builds
\* from a 4x4 greyscale and a 4x2 greyscale-alpha image
BitSources ==
    {extract_lsb_bits(_prepare_image(image).working.data,
                      _prepare_image(image).metadata.embed_indexes, n) :
        image \in {CoverGray, CoverGrayAlpha}, n \in {1, 2}}

\* the bit counts given to bits_to_bytes
BitCounts == {-1, 0, 1, 5, 8, 11, 16, 88}

NoCodecCall ==
    [op |-> "none", object |-> "none", reader |-> BitReader(<<>>),
     bits |-> <<>>, cursor |-> 0, before |-> 0, width |-> 0, bit_count |-> 0,
     ok |-> TRUE, value |-> 0, bytes |-> <<>>]

InitBits ==
    /\ fs = [p \in Paths |-> NoFile]
    /\ hidden = [p \in Paths |-> NoEmbed]
    /\ \/ \E data \in Buffers :
              last = [NoCodecCall EXCEPT !.op = "new", !.object = "reader",
                                         !.reader = BitReader(data)]
       \/ \E bits \in BitSources :
              last = [NoCodecCall EXCEPT !.op = "new", !.object = "iterator",
                                         !.bits = bits]

\* the value of read(width) is at most 2^31 - 1, the largest integer of the
\* model: a chunk wider than 31 bits starts with zero bits
ValueFits(reader, width) ==
    \A j \in 0..(width - 32) :
        reader.position + j < reader.bit_length
        => ReadLoop(reader.data, reader.position + j, 1, 0) = 0

\* one call of read on the reader
Read(width) ==
    /\ last.object = "reader"
    /\ ValueFits(last.reader, width)
    /\ LET chunk == read(last.reader, width)
       IN  last' = [last EXCEPT !.op = "read", !.before = last.reader.position,
                                !.width = width, !.ok = chunk.ok,
                                !.value = chunk.value, !.reader = chunk.reader]
    /\ UNCHANGED <<fs, hidden>>

\* one call of bits_to_bytes on the iterator
Pack(bit_count) ==
    /\ last.object = "iterator"
    /\ LET packed == bits_to_bytes(last.bits, last.cursor, bit_count)
       IN  last' = [last EXCEPT !.op = "bits_to_bytes", !.before = last.cursor,
                                !.bit_count = bit_count, !.ok = packed.ok,
                                !.bytes = packed.bytes,
                                !.cursor = packed.cursor]
    /\ UNCHANGED <<fs, hidden>>

NextBits ==
    \/ \E width \in Widths : Read(width)
    \/ \E bit_count \in BitCounts : Pack(bit_count)

SpecBits == InitBits /\ [][NextBits]_vars

\* ------------------------------------------------------------------------
\* The cipher on its own: calls of derive_key_stream, and calls of
\* xor_encrypt on a byte string and then on the result of the call before.
\* Here last holds the arguments and the result of the call that just ended
\* and those of the call before it.
\* ------------------------------------------------------------------------

\* the password texts given to derive_key_stream
KeyTexts == {"cp", "eu"}

\* the lengths given to derive_key_stream: within one digest, exactly one
\* and two digests, and one byte to either side
KeyLengths == {0, 1, 31, 32, 33, 64, 65}

\* the byte strings given to xor_encrypt: empty, 1 byte, 2 bytes, and 40
\* bytes, more than one digest
PlainTexts ==
    {<<>>, <<65>>, <<195, 169>>, [i \in 1..40 |-> (7 * i + 3) % 256]}

NoCipherCall ==
    [op |-> "none", text |-> "", length |-> 0, stream |-> <<>>,
     data |-> <<>>, password |-> NoPassword, bytes |-> <<>>]

InitKey ==
    /\ fs = [p \in Paths |-> NoFile]
    /\ hidden = [p \in Paths |-> NoEmbed]
    /\ last = [call |-> NoCipherCall, earlier |-> NoCipherCall]

\* one call of derive_key_stream
DeriveKeyStream(text, length) ==
    /\ last' = [call |-> [NoCipherCall EXCEPT
                             !.op = "derive_key_stream", !.text = text,
                             !.length = length,
                             !.stream = derive_key_stream(text, length)],
                earlier |-> last.call]
    /\ UNCHANGED <<fs, hidden>>

\* one call of xor_encrypt on a byte string
XorEncrypt(data, password) ==
    /\ last' = [call |-> [NoCipherCall EXCEPT
                             !.op = "xor_encrypt", !.data = data,
                             !.password = password,
                             !.bytes = xor_encrypt(data, password)],
                earlier |-> NoCipherCall]
    /\ UNCHANGED <<fs, hidden>>

\* one call of xor_encrypt on the bytes the call before returned
XorAgain(password) ==
    /\ last.call.op = "xor_encrypt"
    /\ last.earlier.op = "none"
    /\ last' = [call |-> [NoCipherCall EXCEPT
                             !.op = "xor_encrypt", !.data = last.call.bytes,
                             !.password = password,
                             !.bytes = xor_encrypt(last.call.bytes, password)],
                earlier |-> last.call]
    /\ UNCHANGED <<fs, hidden>>

NextKey ==
    \/ \E text \in KeyTexts, length \in KeyLengths : DeriveKeyStream(text, length)
    \/ \E data \in PlainTexts, p \in Passwords : XorEncrypt(data, p)
    \/ \E p \in Passwords : XorAgain(p)

SpecKey == InitKey /\ [][NextKey]_vars

\* ------------------------------------------------------------------------
\* hide_message called by a program that passes a progress callback
\* ------------------------------------------------------------------------

Callbacks == {NoCallback, ReturningCallback, RaisingCallback}

\* one call of hide_message with progress_callback
HideProgress(input_image, output_image, message, password, bits_per_channel, progress_callback) ==
    /\ last.op = "none"
    /\ LET r == hide_message_progress(fs, input_image, message, password,
                                      bits_per_channel, progress_callback)
       IN  /\ fs' = IF r.kind = "report"
                    THEN [fs EXCEPT ![output_image] = r.encoded]
                    ELSE fs
           /\ hidden' = IF r.kind = "report"
                        THEN [hidden EXCEPT ![output_image] =
                                 [applied |-> TRUE, message |-> message,
                                  password |-> password,
                                  bits_per_channel |-> bits_per_channel]]
                        ELSE hidden
           /\ last' = [op |-> "hide", input |-> input_image,
                       output |-> output_image, message |-> message,
                       password |-> password,
                       bits_per_channel |-> bits_per_channel,
                       kind |-> r.kind, text |-> <<>>, report |-> r.report,
                       events |-> r.events, bytes |-> r.payload, length |-> 0,
                       callback |-> progress_callback, calls |-> r.calls]

NextProgress ==
    \/ \E m \in Messages, p \in {NoPassword, Pw("cp")}, n \in {1, 2, 3},
          c \in Callbacks :
          HideProgress("cover.png", "stego.png", m, p, n, c)
    \/ ShowMenu

SpecProgress == Init /\ [][NextProgress]_vars

\* ------------------------------------------------------------------------
\* The menu loop of main: the choice read at the menu, the action run for
\* it, and what the try statement does with the exception the action
\* raised.  Here last is the position of the loop and the outcome of the
\* action it ran last.
\* ------------------------------------------------------------------------

\* the exception class of each way an engine call ends
ExceptionOf(kind) ==
    IF kind \in {"report", "text"} THEN "none"
    ELSE IF kind = "os_error" THEN "OSError"
    ELSE IF kind = "internal_error" THEN "RuntimeError"
    ELSE IF kind = "decode_error" THEN "UnicodeDecodeError"
    ELSE "ValueError"

\* isinstance(exception, class) for the classes of the model:
\* UnicodeDecodeError is a ValueError, KeyboardInterrupt is a BaseException
\* that is not an Exception
IsInstance(exception, class) ==
    \/ exception = class
    \/ exception = "UnicodeDecodeError" /\ class = "ValueError"
    \/ exception # "KeyboardInterrupt" /\ class = "Exception"

\* faulty variant: every Exception is reported and the loop goes on
HandlerReportAll(exception) ==
    IF exception = "none" THEN "returned"
    ELSE IF IsInstance(exception, "KeyboardInterrupt") THEN "warned"
    ELSE "reported"

\* the try statement around action(): which clause handles the exception
Handler(exception) ==
    IF exception = "none" THEN "returned"
    ELSE IF IsInstance(exception, "KeyboardInterrupt") THEN "warned"
    ELSE IF IsInstance(exception, "OSError") \/ IsInstance(exception, "ValueError")
    THEN "reported"
    ELSE "reraised"

\* what can end an action besides the engine call: Ctrl-C, a prompt on a
\* closed input, the failure of a file operation of the action
Interruptions == {"KeyboardInterrupt", "EOFError", "OSError"}

AtMenu ==
    [pc |-> "menu", choice |-> "", kind |-> "none", exception |-> "none",
     handled |-> "none", runs |-> 0, exit |-> "none"]

InitMenu ==
    /\ \E cover \in Covers :
           fs = [p \in Paths |-> IF p = "cover.png" THEN cover ELSE NoFile]
    /\ hidden = [p \in Paths |-> NoEmbed]
    /\ last = AtMenu

\* choice = _show_menu(): q ends the loop, 1, 2 and 3 select an action
MenuChoice(choice) ==
    /\ last.pc = "menu"
    /\ last' = IF choice = "q"
               THEN [AtMenu EXCEPT !.pc = "ended", !.choice = choice,
                                   !.exit = "quit"]
               ELSE [AtMenu EXCEPT !.pc = "action", !.choice = choice]
    /\ UNCHANGED <<fs, hidden>>

\* the menu prompt raises, outside the try statement: main ends with the
\* exception
MenuRaises(exception) ==
    /\ last.pc = "menu"
    /\ last' = [AtMenu EXCEPT !.pc = "ended", !.exception = exception,
                              !.exit = "raised"]
    /\ UNCHANGED <<fs, hidden>>

\* the loop after action() ended with the given outcome
AfterAction(kind, exception) ==
    LET handled == Handler(exception)
    IN  [last EXCEPT !.pc = IF handled = "reraised" THEN "ended" ELSE "menu",
                     !.kind = kind, !.exception = exception,
                     !.handled = handled, !.runs = last.runs + 1,
                     !.exit = IF handled = "reraised" THEN "raised" ELSE "none"]

\* actions["1"]: _interactive_hide with the answers of the user
RunHide(message, password, bits_per_channel) ==
    /\ last.pc = "action"
    /\ last.choice = "1"
    /\ LET r == hide_message(fs, "cover.png", message, password, bits_per_channel)
       IN  /\ fs' = IF r.kind = "report"
                    THEN [fs EXCEPT !["stego.png"] = r.encoded]
                    ELSE fs
           /\ hidden' = IF r.kind = "report"
                        THEN [hidden EXCEPT !["stego.png"] =
                                 [applied |-> TRUE, message |-> message,
                                  password |-> password,
                                  bits_per_channel |-> bits_per_channel]]
                        ELSE hidden
           /\ last' = AfterAction(r.kind, ExceptionOf(r.kind))

\* actions["2"]: _interactive_extract on a file that exists
RunExtract(encoded_image, password, bits_per_channel) ==
    /\ last.pc = "action"
    /\ last.choice = "2"
    /\ fs[encoded_image] # NoFile
    /\ LET r == extract_message(fs, encoded_image, password, bits_per_channel)
       IN  last' = AfterAction(r.kind, ExceptionOf(r.kind))
    /\ UNCHANGED <<fs, hidden>>

\* actions["3"]: _interactive_diff on two files that exist
RunDiff(original, modified) ==
    /\ last.pc = "action"
    /\ last.choice = "3"
    /\ fs[original] # NoFile
    /\ fs[modified] # NoFile
    /\ LET r == analyze_images(fs, original, modified)
       IN  last' = AfterAction(r.kind, ExceptionOf(r.kind))
    /\ UNCHANGED <<fs, hidden>>

\* an action ended by an exception of its prompts or file operations
ActionRaises(exception) ==
    /\ last.pc = "action"
    /\ last' = AfterAction("raised", exception)
    /\ UNCHANGED <<fs, hidden>>

NextMenu ==
    \/ \E choice \in {"1", "2", "3", "q"} : MenuChoice(choice)
    \/ \E exception \in {"KeyboardInterrupt", "EOFError"} : MenuRaises(exception)
    \/ \E m \in Messages, p \in {NoPassword, Pw("cp")}, n \in {1, 2} :
          RunHide(m, p, n)
    \/ \E e \in Paths, p \in {NoPassword, Pw("cp"), Pw("eu")}, n \in {1, 2} :
          RunExtract(e, p, n)
    \/ \E a \in Paths, b \in Paths : RunDiff(a, b)
    \/ \E exception \in Interruptions : ActionRaises(exception)

SpecMenu == InitMenu /\ [][NextMenu]_vars

\* ------------------------------------------------------------------------
\* Chains of hide_message calls: each call reads the file that the call
\* before it has written
\* ------------------------------------------------------------------------

ChainCovers == {CoverRGBA, CoverGray}

\* messages of 0, 2 and 3 bytes
ChainMessages == {<<>>, <<233>>, <<65, 233>>}

ChainPasswords == {NoPassword, Pw("cp")}

\* no hide_message call has written this file
NoChain ==
    [applied |-> FALSE, message |-> <<>>, password |-> NoPassword,
     bits_per_channel |-> 0, chain |-> 0, report |-> NoReport]

\* the file that the latest successful call has written, the cover before
\* the first call
ChainHead ==
    IF hidden["stego.png"].chain > hidden["cover.png"].chain
    THEN "stego.png"
    ELSE "cover.png"

\* the path that is not the given one
OtherPath(path) == IF path = "cover.png" THEN "stego.png" ELSE "cover.png"

InitChain ==
    /\ \E cover \in ChainCovers :
           fs = [p \in Paths |-> IF p = "cover.png" THEN cover ELSE NoFile]
    /\ hidden = [p \in Paths |-> NoChain]
    /\ last = NoCall

\* one call of hide_message whose input is the output of the call before
\* and whose output is the other file
HideNext(message, password, bits_per_channel) ==
    /\ last.op = "none"
    /\ hidden[ChainHead].chain < MaxChain
    /\ LET input_image == ChainHead
           output_image == OtherPath(ChainHead)
           r == hide_message(fs, input_image, message, password, bits_per_channel)
       IN  /\ fs' = IF r.kind = "report"
                    THEN [fs EXCEPT ![output_image] = r.encoded]
                    ELSE fs
           /\ hidden' = IF r.kind = "report"
                        THEN [hidden EXCEPT ![output_image] =
                                 [applied |-> TRUE, message |-> message,
                                  password |-> password,
                                  bits_per_channel |-> bits_per_channel,
                                  chain |-> hidden[input_image].chain + 1,
                                  report |-> r.report]]
                        ELSE hidden
           /\ last' = [op |-> "hide", input |-> input_image,
                       output |-> output_image, message |-> message,
                       password |-> password,
                       bits_per_channel |-> bits_per_channel,
                       kind |-> r.kind, text |-> <<>>, report |-> r.report,
                       events |-> r.events, bytes |-> r.payload, length |-> 0]

NextChain ==
    \/ \E m \in ChainMessages, p \in ChainPasswords, n \in {1, 2} :
          HideNext(m, p, n)
    \/ \E p \in ChainPasswords, n \in {1, 2} : Extract(ChainHead, p, n)
    \/ ShowMenu

SpecChain == InitChain /\ [][NextChain]_vars

\* ------------------------------------------------------------------------
\* Properties
\* ------------------------------------------------------------------------

\* the image on which the last call worked
LastImage == fs[last.input]

\* the arguments of the hide_message call that wrote that image
LastHidden == hidden[last.input]

\* the last call passed the validation of bits_per_channel
ValidBits == last.bits_per_channel \in {1, 2}

\* width * height * 3 * n: the bits an image offers with n bits per channel,
\* the working image having the three non-alpha channels R, G and B
ImageBits(image, n) == image.width * image.height * 3 * n

\* the UTF-8 length of a message: 1 byte for "A", 2 bytes for e-acute
RECURSIVE ByteLength(_)
ByteLength(message) ==
    IF message = <<>> THEN 0
    ELSE (IF Head(message) = 65 THEN 1 ELSE 2) + ByteLength(Tail(message))

\* C1: round trip.  hide_message succeeds whenever 8*L + 88 <= capacity
\* (equality included), and extract_message on a file written by
\* hide_message, called with the same password and the same
\* bits_per_channel, returns exactly the hidden message.
RoundTrip ==
    /\ (/\ last.op = "hide"
        /\ ValidBits
        /\ 8 * ByteLength(last.message) + 88
              <= ImageBits(LastImage, last.bits_per_channel))
       => last.kind = "report"
    /\ (/\ last.op = "extract"
        /\ LastHidden.applied
        /\ last.password = LastHidden.password
        /\ last.bits_per_channel = LastHidden.bits_per_channel)
       => (last.kind = "text" /\ last.text = LastHidden.message)

\* a message of 1 byte hidden under a password at 1 bit per channel in an
\* image of exactly 96 bits (8*1 + 88 = 96) has been read back
RoundTripWitness ==
    /\ last.op = "extract"
    /\ LastHidden.applied
    /\ LastHidden.message = <<65>>
    /\ LastHidden.password = Pw("cp")
    /\ LastHidden.bits_per_channel = 1
    /\ ImageBits(LastImage, 1) = 96
    /\ last.password = Pw("cp")
    /\ last.bits_per_channel = 1
    /\ last.kind = "text"
    /\ last.text = <<65>>

\* extract_message was called on a file written by hide_message, with the
\* bits_per_channel of that call and another password
WrongPasswordCall ==
    /\ last.op = "extract"
    /\ LastHidden.applied
    /\ last.bits_per_channel = LastHidden.bits_per_channel
    /\ last.password # LastHidden.password

\* C2 as stated: extract_message with a wrong password fails UTF-8 decoding
\* or returns a string different from the message, never the message.
WrongPasswordNeverReturnsMessage ==
    WrongPasswordCall
    => \/ last.kind = "decode_error"
       \/ (last.kind = "text" /\ last.text # LastHidden.message)

\* C2: extract_message with a wrong password returns the message exactly
\* when xor_encrypt gives the same body bytes under both passwords (the empty
\* message, None against the empty password, key streams that agree on the
\* first L bytes); otherwise it fails UTF-8 decoding or returns a string
\* different from the message.
WrongPasswordAmended ==
    WrongPasswordCall
    => LET body == Utf8Encode(LastHidden.message)
       IN  IF xor_encrypt(body, last.password)
                = xor_encrypt(body, LastHidden.password)
           THEN last.kind = "text" /\ last.text = LastHidden.message
           ELSE \/ last.kind = "decode_error"
                \/ (last.kind = "text" /\ last.text # LastHidden.message)

\* a wrong password decrypted a 2-byte body to another valid text
WrongPasswordWitness ==
    /\ WrongPasswordCall
    /\ LastHidden.message = <<233>>
    /\ LastHidden.password = Pw("cp")
    /\ last.password = Pw("eu")
    /\ last.kind = "text"
    /\ last.text # LastHidden.message

\* extract_message was called with a valid bits_per_channel on an existing
\* image that hide_message never wrote
NeverHiddenCall ==
    /\ last.op = "extract"
    /\ ValidBits
    /\ LastImage # NoFile
    /\ ~LastHidden.applied

\* C3 as stated: extract_message on an image to which hide_message was
\* never applied fails with the "no embedded payload" error.
MagicRejection == NeverHiddenCall => last.kind = "no_payload"

\* the first 7 bytes the extraction reads from the image of the last call
LeadingBytes ==
    bits_to_bytes(
        extract_lsb_bits(_prepare_image(LastImage).working.data, <<0, 1, 2>>,
                         last.bits_per_channel),
        0, 8 * Len(HEADER_MAGIC)).bytes

\* C3: on an image to which hide_message was never applied, extract_message
\* fails with the truncation error when the image offers fewer than 88 bits,
\* with the "no embedded payload" error when it offers at least 88 bits and
\* its first 7 bytes are not the magic tag; an image whose first 7 bytes
\* happen to be the magic tag is read like an embedded payload.
MagicRejectionAmended ==
    NeverHiddenCall
    => IF ImageBits(LastImage, last.bits_per_channel) < 88
       THEN last.kind = "truncated"
       ELSE IF LeadingBytes # HEADER_MAGIC
       THEN last.kind = "no_payload"
       ELSE last.kind \in {"truncated", "decode_error", "text"}

\* an image of 96 bits that hide_message never wrote was rejected for its
\* magic tag
MagicRejectionWitness ==
    /\ NeverHiddenCall
    /\ ImageBits(LastImage, last.bits_per_channel) >= 88
    /\ last.kind = "no_payload"

\* C4: over-capacity rejection.  Whenever 8*(11 + L) exceeds
\* width*height*3*bits_per_channel, hide_message fails with the capacity
\* error, having neither changed a pixel nor saved the destination, and
\* every file is left exactly as it was.
OverCapacityRejected ==
    [][(/\ last'.op = "hide"
        /\ last'.bits_per_channel \in {1, 2}
        /\ fs[last'.input] # NoFile
        /\ 8 * (11 + ByteLength(last'.message))
              > ImageBits(fs[last'.input], last'.bits_per_channel))
       => (/\ last'.kind = "capacity_error"
           /\ \A k \in 1..Len(last'.events) :
                  last'.events[k] \notin {"getdata", "putdata", "save"}
           /\ fs' = fs)]_vars

\* a message too long for the cover was refused while a stego file written
\* by an earlier call was in place
OverCapacityWitness ==
    /\ last.op = "hide"
    /\ last.kind = "capacity_error"
    /\ last.bits_per_channel = 1
    /\ fs[last.output] # NoFile
    /\ hidden[last.output].applied

\* the header and the body bits that extract_message reads from the image
\* of the last call
StreamOfLast ==
    extract_lsb_bits(_prepare_image(LastImage).working.data, <<0, 1, 2>>,
                     last.bits_per_channel)

HeaderOfLast == bits_to_bytes(StreamOfLast, 0, 88)

\* the header read by the last extract_message call carries the magic tag
ValidHeaderRead ==
    /\ last.op = "extract"
    /\ ValidBits
    /\ LastImage # NoFile
    /\ HeaderOfLast.ok
    /\ SubSeq(HeaderOfLast.bytes, 1, 7) = HEADER_MAGIC

\* the body length, in bytes, declared by the header of the last call
DeclaredLength == UnpackU32(SubSeq(HeaderOfLast.bytes, 8, 11))

\* C5: truncation.  When the header has a valid magic tag and declares more
\* body bits than remain after the 88 header bits, extract_message fails
\* with the truncation error and returns no text; bits_to_bytes raises that
\* error exactly when its source runs out before bit_count bits.
TruncationIsFatal ==
    (last.op = "extract" /\ ValidBits /\ LastImage # NoFile)
    => LET stream == StreamOfLast
           header == bits_to_bytes(stream, 0, 88)
       IN  /\ \A cursor \in {0, 88} \cap (0..Len(stream)),
                 bit_count \in {0, 8, 9, 104, 105, 193} :
                  bits_to_bytes(stream, cursor, bit_count).ok
                      = (cursor + bit_count <= Len(stream))
           /\ (/\ header.ok
               /\ Len(header.bytes) = 11
               /\ SubSeq(header.bytes, 1, 7) = HEADER_MAGIC
               /\ 8 * UnpackU32(SubSeq(header.bytes, 8, 11)) > Len(stream) - 88)
              => (last.kind = "truncated" /\ last.text = <<>>)

\* a header with a valid magic tag declared 5 bytes where 1 byte was left
TruncationWitness ==
    /\ ValidHeaderRead
    /\ DeclaredLength = 5
    /\ Len(StreamOfLast) - 88 = 8
    /\ last.kind = "truncated"

\* C6: decode failure is distinguishable.  When the header is valid, the
\* body is fully read and the decrypted body is not valid UTF-8,
\* extract_message fails with the "payload unreadable" outcome, which is
\* neither the magic mismatch nor the truncation outcome, and returns no
\* text.
DecodeFailureDistinct ==
    (last.op = "extract" /\ ValidBits /\ LastImage # NoFile)
    => LET stream == StreamOfLast
           header == bits_to_bytes(stream, 0, 88)
           length == UnpackU32(SubSeq(header.bytes, 8, 11))
       IN  (/\ header.ok
            /\ SubSeq(header.bytes, 1, 7) = HEADER_MAGIC
            /\ 8 * length <= Len(stream) - 88
            /\ ~Utf8Decode(xor_encrypt(bits_to_bytes(stream, 88, 8 * length).bytes,
                                       last.password)).ok)
           => (/\ last.kind = "decode_error"
               /\ last.kind \notin {"no_payload", "truncated", "text"}
               /\ last.text = <<>>)

\* a body hidden under a password was read without one and is not UTF-8
DecodeFailureWitness ==
    /\ last.op = "extract"
    /\ LastHidden.applied
    /\ LastHidden.message = <<233>>
    /\ LastHidden.password = Pw("cp")
    /\ last.password = NoPassword
    /\ last.bits_per_channel = LastHidden.bits_per_channel
    /\ last.kind = "decode_error"

\* C7: bits_per_channel validation.  hide_message and extract_message accept
\* bits_per_channel exactly in [1, 2]; for any other value they fail with
\* the validation error having done nothing else: no payload built, no image
\* opened, no pixel read or changed, no file written.
BitsPerChannelValidated ==
    [][(last'.op \in {"hide", "extract"})
       => IF last'.bits_per_channel \in {1, 2}
          THEN last'.kind # "validation_error"
          ELSE /\ last'.kind = "validation_error"
               /\ last'.events = <<"validate">>
               /\ last'.bytes = <<>>
               /\ fs' = fs]_vars

\* hide_message refused 3 bits per channel
BitsPerChannelWitness ==
    /\ last.op = "hide"
    /\ last.bits_per_channel = 3
    /\ last.kind = "validation_error"

\* the number of non-alpha channels of the RGB or RGBA working image
NonAlphaChannels(image) ==
    IF image.mode \in {"RGBA", "LA"} THEN 4 - 1 ELSE 3

\* C8: capacity formula.  The capacity used by hide_message is
\* width * height * (non-alpha channels of the working image) * n, so an
\* image with alpha and one without, of the same size, have the same
\* capacity.
CapacityFormula ==
    /\ (last.op = "hide" /\ last.kind = "report")
       => /\ last.report.capacity_bits
                = LastImage.width * LastImage.height
                  * NonAlphaChannels(LastImage) * last.bits_per_channel
          /\ last.report.channels_used = NonAlphaChannels(LastImage)
    /\ (last.op = "hide" /\ ValidBits /\ LastImage # NoFile)
       => (last.kind = "capacity_error")
              = (Len(last.bytes) * 8
                   > LastImage.width * LastImage.height
                     * NonAlphaChannels(LastImage) * last.bits_per_channel)
    /\ \A n \in {1, 2} :
           capacity_bits(_prepare_image(CoverRGBA).metadata, n)
               = capacity_bits(_prepare_image(CoverForeign).metadata, n)

\* a message was hidden in the image with an alpha channel
CapacityWitness ==
    /\ last.op = "hide"
    /\ last.kind = "report"
    /\ LastImage.mode = "RGBA"
    /\ last.report.capacity_bits = 192

\* the 4-byte big-endian number at bytes 8..11 of a frame
LengthField(bytes) ==
    bytes[8] * 16777216 + bytes[9] * 65536 + bytes[10] * 256 + bytes[11]

\* C9: the frame is self-describing.  build_payload returns the 7 bytes
\* LSBMSG1, a 4-byte big-endian length and the body; the length field is the
\* number of body bytes, which is the UTF-8 length of the message with or
\* without a password; parse_header on the first 11 bytes returns that
\* length, and on 11 bytes whose first 7 differ from LSBMSG1 it fails with
\* the "no embedded payload" error whatever the length bytes are.
FrameSelfDescribing ==
    /\ last.op = "build_payload"
       => /\ Len(last.bytes) = 11 + ByteLength(last.message)
          /\ SubSeq(last.bytes, 1, 7) = <<76, 83, 66, 77, 83, 71, 49>>
          /\ LengthField(last.bytes) = Len(last.bytes) - 11
          /\ (~last.password.given \/ last.password.text = "")
             => SubSeq(last.bytes, 12, Len(last.bytes)) = Utf8Encode(last.message)
    /\ last.op = "parse_header"
       => IF SubSeq(last.bytes, 1, 7) = <<76, 83, 66, 77, 83, 71, 49>>
          THEN /\ last.kind = "length"
               /\ last.length = LengthField(last.bytes)
               /\ (last.bytes = SubSeq(build_payload(last.message, last.password),
                                       1, 11))
                  => last.length = ByteLength(last.message)
          ELSE last.kind = "no_payload"

\* parse_header refused a header whose tag differs in its last byte only,
\* the header being the one built for a 2-byte message under a password
FrameWitness ==
    /\ last.op = "parse_header"
    /\ last.message = <<233>>
    /\ last.password = Pw("cp")
    /\ SubSeq(last.bytes, 1, 6) = <<76, 83, 66, 77, 83, 71>>
    /\ last.bytes[7] = 1
    /\ last.bytes[11] = 2
    /\ last.kind = "no_payload"

\* C10: every EmbedReport returned by hide_message has payload_bits =
\* 8 * (11 + UTF-8 length of the message), capacity_bits = width * height *
\* channels_used * bits_per_channel, payload_bits <= capacity_bits,
\* total_pixels = width * height and 0 <= pixels_touched <= total_pixels.
EmbedReportConsistent ==
    (last.op = "hide" /\ last.kind = "report")
    => LET report == last.report
       IN  /\ report.payload_bits = 8 * (11 + ByteLength(last.message))
           /\ report.bits_per_channel = last.bits_per_channel
           /\ report.capacity_bits
                 = LastImage.width * LastImage.height * report.channels_used
                   * report.bits_per_channel
           /\ report.payload_bits <= report.capacity_bits
           /\ report.total_pixels = LastImage.width * LastImage.height
           /\ 0 <= report.pixels_touched
           /\ report.pixels_touched <= report.total_pixels

\* a report that fills the image to the last bit and counts changed pixels
EmbedReportWitness ==
    /\ last.op = "hide"
    /\ last.kind = "report"
    /\ last.report.payload_bits = 96
    /\ last.report.capacity_bits = 96
    /\ last.report.total_pixels = 32
    /\ last.report.pixels_touched > 0

\* analyze_images was called on two existing files
AnalyzeCall ==
    /\ last.op = "analyze"
    /\ fs[last.input] # NoFile
    /\ fs[last.output] # NoFile

\* C11: diff identity.  analyze_images on an image and itself (the same file
\* or two files holding the same image) returns a report with
\* changed_channels = 0, avg_abs_diff = 0 and max_abs_diff = 0.
DiffIdentity ==
    (AnalyzeCall /\ fs[last.input] = fs[last.output])
    => /\ last.kind = "report"
       /\ last.report.changed_channels = 0
       /\ last.report.avg_abs_diff.num = 0
       /\ last.report.max_abs_diff = 0

\* an image of 96 channels was compared with itself
DiffIdentityWitness ==
    /\ AnalyzeCall
    /\ fs[last.input] = fs[last.output]
    /\ last.kind = "report"
    /\ last.report.total_channels = 96
    /\ last.report.changed_channels = 0

\* the two images of the last analyze_images call differ in width or height
MismatchedCall ==
    /\ AnalyzeCall
    /\ \/ fs[last.input].width # fs[last.output].width
       \/ fs[last.input].height # fs[last.output].height

\* C12: dimension mismatch.  When the two images differ in width or in
\* height, analyze_images fails with the input error, having converted and
\* read no pixel, and no DiffReport is returned.
DimensionMismatch ==
    MismatchedCall
    => /\ last.kind = "size_error"
       /\ last.events = <<"open", "open">>
       /\ last.report = NoDiffReport

\* two images of the same width and different heights were refused
DimensionMismatchWitness ==
    /\ MismatchedCall
    /\ fs[last.input].width = fs[last.output].width
    /\ fs[last.input].height # fs[last.output].height
    /\ last.kind = "size_error"

\* hide_message just returned a report
HideReport == last.op = "hide" /\ last.kind = "report"

\* the bits of a byte string, the most significant bit of each byte first
BitsOfBytes(bytes) ==
    [k \in 1..(8 * Len(bytes)) |->
        BitAt(bytes[((k - 1) \div 8) + 1], 7 - ((k - 1) % 8))]

\* C13: embedding and extraction walk the pixels in the same order.  After a
\* successful hide_message with bits_per_channel 1 or 2, the bits that
\* extract_lsb_bits yields from the pixels written to the output file start
\* with exactly the bits of the payload, each byte most significant bit
\* first.
SameWalkOrder ==
    HideReport
    => LET written == _prepare_image(fs[last.output])
           stream  == extract_lsb_bits(written.working.data,
                                       written.metadata.embed_indexes,
                                       last.bits_per_channel)
           payload == BitsOfBytes(last.bytes)
       IN  /\ Len(payload) = last.report.payload_bits
           /\ Len(stream) >= Len(payload)
           /\ SubSeq(stream, 1, Len(payload)) = payload

\* a payload of 12 bytes was embedded with 2 bits per channel, its last
\* chunk falling in the middle of a pixel
SameWalkOrderWitness ==
    /\ HideReport
    /\ last.bits_per_channel = 2
    /\ Len(last.bytes) = 12
    /\ last.password = Pw("cp")

\* the step is a hide_message call that returned a report
HideReportStep == last'.op = "hide" /\ last'.kind = "report"

\* C14: hide_message changes only the low bits_per_channel bits of the
\* non-alpha channels.  In every pixel of the output the bits above the low
\* bits_per_channel bits of R, G and B are those of the source working
\* image, the output has the mode and the size of the working image, and
\* the alpha channel of an image that has one is that of the source.
OnlyLowBitsChange ==
    [][HideReportStep
       => LET source == _prepare_image(fs[last'.input]).working
              output == fs'[last'.output]
              high   == Pow2(last'.bits_per_channel)
          IN  /\ output.mode = source.mode
              /\ output.width = source.width
              /\ output.height = source.height
              /\ Len(output.data) = Len(source.data)
              /\ \A i \in 1..Len(source.data) :
                     /\ Len(output.data[i]) = Len(source.data[i])
                     /\ \A c \in 1..3 :
                            output.data[i][c] \div high
                               = source.data[i][c] \div high
                     /\ source.mode = "RGBA"
                        => output.data[i][4] = source.data[i][4]]_vars

\* a payload was embedded with 2 bits per channel in an image that has an
\* alpha channel, and some channel of the output differs from the source
OnlyLowBitsChangeWitness ==
    /\ HideReport
    /\ last.bits_per_channel = 2
    /\ fs[last.output].mode = "RGBA"
    /\ \E i \in 1..Len(fs[last.output].data) :
           fs[last.output].data[i] # fs[last.input].data[i]

\* ceil(a / b) for a >= 0 and b > 0
CeilDiv(a, b) == (a + b - 1) \div b

\* C15: pixels past the payload are untouched.  After a successful
\* hide_message of payload_bits bits with C embeddable channels and n bits
\* per channel, every pixel of index >= ceil(payload_bits / (C*n)) is the
\* source pixel, and in the last written pixel every channel that comes
\* after the final chunk of the payload keeps its source value.
PastPayloadUntouched ==
    [][HideReportStep
       => LET prepared == _prepare_image(fs[last'.input])
              source   == prepared.working.data
              indexes  == prepared.metadata.embed_indexes
              output   == fs'[last'.output].data
              n        == last'.bits_per_channel
              C        == Len(indexes)
              payload_bits == 8 * Len(last'.bytes)
          IN  /\ Len(output) = Len(source)
              /\ \A i \in 0..(Len(source) - 1) :
                     /\ i >= CeilDiv(payload_bits, C * n)
                        => output[i + 1] = source[i + 1]
                     /\ \A k \in 0..(C - 1) :
                            (i * C + k) * n >= payload_bits
                            => output[i + 1][indexes[k + 1] + 1]
                                  = source[i + 1][indexes[k + 1] + 1]]_vars

\* 88 bits were embedded with 2 bits per channel in an RGBA image: the 44th
\* chunk changed the second channel of pixel 14, whose third channel has
\* low bits other than 0 and kept them, and pixel 15 is the source pixel
PastPayloadUntouchedWitness ==
    /\ HideReport
    /\ last.bits_per_channel = 2
    /\ last.report.payload_bits = 88
    /\ fs[last.input].mode = "RGBA"
    /\ fs[last.output].data[15][2] # fs[last.input].data[15][2]
    /\ fs[last.output].data[15][3] % 4 # 0
    /\ fs[last.output].data[15][3] = fs[last.input].data[15][3]
    /\ fs[last.output].data[16] = fs[last.input].data[16]

\* C16: pixels_touched counts changed pixels only.  The pixels_touched of a
\* report is the number of positions at which the output pixel differs from
\* the source working pixel; a pixel whose low bits already were the chunks
\* assigned to it is not counted, and its bits in the output are still the
\* payload bits assigned to it.
PixelsTouchedCountsChanges ==
    [][HideReportStep
       => LET prepared == _prepare_image(fs[last'.input])
              source   == prepared.working.data
              indexes  == prepared.metadata.embed_indexes
              output   == fs'[last'.output].data
              n        == last'.bits_per_channel
              per_pixel == Len(indexes) * n
              payload  == BitsOfBytes(last'.bytes)
              changed  == {i \in 1..Len(source) : output[i] # source[i]}
          IN  /\ last'.report.pixels_touched = Cardinality(changed)
              /\ \A i \in 1..CeilDiv(Len(payload), per_pixel) :
                     i \notin changed
                     => LET kept == PixelBits(output[i], indexes, 1, n)
                        IN  \A b \in 1..per_pixel :
                                (i - 1) * per_pixel + b <= Len(payload)
                                => kept[b] = payload[(i - 1) * per_pixel + b]]_vars

\* the payload took up the whole image at 1 bit per channel and fewer than
\* 32 pixels were counted: some pixel already held its three payload bits
PixelsTouchedWitness ==
    /\ HideReport
    /\ last.bits_per_channel = 1
    /\ last.report.payload_bits = 96
    /\ last.report.total_pixels = 32
    /\ last.report.pixels_touched < 32
    /\ last.report.pixels_touched > 0

\* C17: the internal-invariant failure of hide_message is unreachable.  No
\* call ends with the RuntimeError of the check after the pixel walk, and
\* whenever bits_per_channel is 1 or 2, the image opens and the capacity
\* pre-check passes (payload_bits <= capacity), the walk consumes every bit
\* of the payload and the call returns its report.
InternalFailureUnreachable ==
    last.op = "hide"
    => /\ last.kind # "internal_error"
       /\ (/\ ValidBits
           /\ LastImage # NoFile
           /\ ~ExceedsCapacity(
                  8 * Len(last.bytes),
                  capacity_bits(_prepare_image(LastImage).metadata,
                                last.bits_per_channel)))
          => last.kind = "report"

\* a payload of exactly as many bits as the image offers passed the
\* pre-check and was embedded whole
InternalFailureWitness ==
    /\ HideReport
    /\ last.report.payload_bits = last.report.capacity_bits
    /\ last.report.payload_bits = 96
    /\ last.password = Pw("eu")

\* bit number position of a byte string, bit 0 being the most significant
\* bit of the first byte
BufferBit(data, position) ==
    (data[(position \div 8) + 1] \div Pow2(7 - (position % 8))) % 2

\* C18: the value of BitReader.read.  For every buffer, cursor and width
\* from 1 to 32, read(width) returns the unsigned integer whose bits, most
\* significant first, are the next width bits of the buffer from the cursor
\* when at least width bits remain, and returns None otherwise.
ReadValue ==
    (last.op = "read" /\ last.width >= 1)
    => IF total_bits(last.reader) - last.before >= last.width
       THEN /\ last.ok
            /\ last.value >= 0
            /\ last.width <= 30 => last.value < Pow2(last.width)
            /\ \A j \in 0..(last.width - 1) :
                   LET shift == last.width - 1 - j
                       bit   == BufferBit(last.reader.data, last.before + j)
                   IN  IF shift <= 30
                       THEN (last.value \div Pow2(shift)) % 2 = bit
                       ELSE bit = 0
       ELSE ~last.ok

\* 13 bits were read across three bytes from a cursor inside a byte
ReadValueWitness ==
    /\ last.op = "read"
    /\ last.reader.data = <<18, 52, 86, 120, 154>>
    /\ last.width = 13
    /\ last.before = 5
    /\ last.ok
    /\ last.value = 2257

\* the cursor of the reader is within its buffer and its properties agree
\* with it
CursorInRange ==
    last.object = "reader"
    => /\ 0 <= last.reader.position
       /\ last.reader.position <= total_bits(last.reader)
       /\ total_bits(last.reader) = 8 * Len(last.reader.data)
       /\ remaining_bits(last.reader)
             = total_bits(last.reader) - last.reader.position
       /\ has_bits(last.reader) <=> remaining_bits(last.reader) > 0

\* C19: the cursor of a BitReader.  Before and after every read call of a
\* sequence, 0 <= cursor <= total_bits, remaining_bits = total_bits - cursor and
\* has_bits holds exactly when remaining_bits > 0; the buffer never changes,
\* the cursor never decreases, a read that returns a value advances it by
\* exactly width, and a read that returns None leaves it unchanged.
CursorDiscipline ==
    [][/\ CursorInRange
       /\ CursorInRange'
       /\ last'.op = "read"
          => /\ last'.reader.data = last.reader.data
             /\ last'.reader.bit_length = last.reader.bit_length
             /\ last'.reader.position >= last.reader.position
             /\ last'.before = last.reader.position
             /\ last'.ok
                => last'.reader.position = last.reader.position + last'.width
             /\ ~last'.ok
                => last'.reader.position = last.reader.position]_vars

\* a read failed with bits left in the reader, after reads that succeeded
CursorWitness ==
    /\ last.op = "read"
    /\ ~last.ok
    /\ last.before > 0
    /\ last.reader.position = last.before
    /\ has_bits(last.reader)

\* C20: the packing of bits_to_bytes.  On a source that holds at least
\* bit_count more bits, bits_to_bytes consumes exactly bit_count bits and
\* returns ceil(bit_count / 8) bytes in which bit j (most significant
\* first) of byte k is bit 8k + j of the bits consumed, the bits of the last
\* byte beyond bit_count being zero.
PackingLayout ==
    (/\ last.op = "bits_to_bytes"
     /\ last.bit_count >= 0
     /\ last.before + last.bit_count <= Len(last.bits))
    => /\ last.ok
       /\ last.cursor = last.before + last.bit_count
       /\ Len(last.bytes) = CeilDiv(last.bit_count, 8)
       /\ \A k \in 0..(Len(last.bytes) - 1) :
              /\ last.bytes[k + 1] \in 0..255
              /\ \A j \in 0..7 :
                     (last.bytes[k + 1] \div Pow2(7 - j)) % 2
                        = IF 8 * k + j < last.bit_count
                          THEN last.bits[last.before + 8 * k + j + 1]
                          ELSE 0

\* 11 bits were packed into 2 bytes from a cursor that is not a multiple of
\* 8, the second byte carrying a 1 among its 3 bits
PackingWitness ==
    /\ last.op = "bits_to_bytes"
    /\ last.bit_count = 11
    /\ last.before % 8 # 0
    /\ last.ok
    /\ Len(last.bytes) = 2
    /\ last.bytes[2] # 0
    /\ last.cursor = last.before + 11

\* C21: key stream construction.  derive_key_stream(password, length)
\* returns exactly length bytes, byte i being byte (i mod 32) of the digest
\* of the password bytes followed by the big-endian counter (i div 32); the
\* same password and length give the same stream, and the stream of a
\* shorter length is a prefix of the stream of a longer one.
KeyStreamConstruction ==
    last.call.op = "derive_key_stream"
    => LET stream == last.call.stream
           before == last.earlier
       IN  /\ Len(stream) = last.call.length
           /\ \A i \in 0..(last.call.length - 1) :
                  stream[i + 1]
                     = Sha256Digest(last.call.text, i \div 32)[(i % 32) + 1]
           /\ (before.op = "derive_key_stream" /\ before.text = last.call.text)
              => /\ before.length = last.call.length => before.stream = stream
                 /\ before.length <= last.call.length
                    => before.stream = SubSeq(stream, 1, before.length)
                 /\ before.length >= last.call.length
                    => stream = SubSeq(before.stream, 1, last.call.length)

\* a stream of 65 bytes, which takes three digests, was derived after a
\* stream of 33 bytes of the same password
KeyStreamWitness ==
    /\ last.call.op = "derive_key_stream"
    /\ last.call.length = 65
    /\ last.call.text = "eu"
    /\ last.call.stream[65] = 186
    /\ last.earlier.op = "derive_key_stream"
    /\ last.earlier.text = "eu"
    /\ last.earlier.length = 33

\* no password was supplied: None or the empty string
NoKey(password) == ~password.given \/ password.text = ""

\* C22: the XOR combinator.  xor_encrypt returns as many bytes as it was
\* given; applied to its own result with the same non-empty password it
\* returns the original bytes; with no password (None or the empty string)
\* it returns its argument unchanged.
XorInvolution ==
    last.call.op = "xor_encrypt"
    => /\ Len(last.call.bytes) = Len(last.call.data)
       /\ \A i \in 1..Len(last.call.bytes) : last.call.bytes[i] \in 0..255
       /\ NoKey(last.call.password) => last.call.bytes = last.call.data
       /\ (/\ last.earlier.op = "xor_encrypt"
           /\ last.earlier.password = last.call.password)
          => last.call.bytes = last.earlier.data

\* 40 bytes, which take two digests of key stream, were changed in every
\* block by the first call and restored by the second
XorInvolutionWitness ==
    /\ last.call.op = "xor_encrypt"
    /\ last.earlier.op = "xor_encrypt"
    /\ last.call.password = Pw("cp")
    /\ last.earlier.password = Pw("cp")
    /\ Len(last.earlier.data) = 40
    /\ last.earlier.bytes[1] # last.earlier.data[1]
    /\ last.earlier.bytes[40] # last.earlier.data[40]
    /\ last.call.bytes = last.earlier.data

\* channel c (1 to 3) of pixel i in the RGB view of an image: a grey value
\* stands for R, G and B, an alpha value is not part of the view
RgbValue(image, i, c) ==
    IF image.mode \in {"L", "LA"} THEN image.data[i][1] ELSE image.data[i][c]

\* |a - b|
AbsDiff(a, b) == IF a < b THEN b - a ELSE a - b

RECURSIVE SumAbsDiff(_, _, _)
\* the sum of the absolute differences over the pixels from i on
SumAbsDiff(a, b, i) ==
    IF i > Len(a.data) THEN 0
    ELSE AbsDiff(RgbValue(a, i, 1), RgbValue(b, i, 1))
         + AbsDiff(RgbValue(a, i, 2), RgbValue(b, i, 2))
         + AbsDiff(RgbValue(a, i, 3), RgbValue(b, i, 3))
         + SumAbsDiff(a, b, i + 1)

\* C23: diff statistics.  For two images of equal size analyze_images
\* reports total_channels = width*height*3, changed_channels = the number of
\* channel positions of the RGB views whose absolute difference is not 0,
\* max_abs_diff = the largest absolute difference, and avg_abs_diff = the
\* sum of the absolute differences over changed_channels, or 0 when nothing
\* changed; changed_channels <= total_channels, and max_abs_diff = 0 exactly
\* when changed_channels = 0.
DiffStatistics ==
    (/\ AnalyzeCall
     /\ fs[last.input].width = fs[last.output].width
     /\ fs[last.input].height = fs[last.output].height)
    => LET a == fs[last.input]
           b == fs[last.output]
           positions == (1..Len(a.data)) \X (1..3)
           differing == {q \in positions :
                           RgbValue(a, q[1], q[2]) # RgbValue(b, q[1], q[2])}
           report == last.report
       IN  /\ last.kind = "report"
           /\ report.total_channels = a.width * a.height * 3
           /\ report.changed_channels = Cardinality(differing)
           /\ \A q \in positions :
                  AbsDiff(RgbValue(a, q[1], q[2]), RgbValue(b, q[1], q[2]))
                     <= report.max_abs_diff
           /\ \/ report.max_abs_diff = 0
              \/ \E q \in positions :
                     AbsDiff(RgbValue(a, q[1], q[2]), RgbValue(b, q[1], q[2]))
                        = report.max_abs_diff
           /\ report.avg_abs_diff
                 = IF differing = {} THEN [num |-> 0, den |-> 1]
                   ELSE [num |-> SumAbsDiff(a, b, 1),
                         den |-> Cardinality(differing)]
           /\ report.changed_channels <= report.total_channels
           /\ report.max_abs_diff = 0 <=> report.changed_channels = 0

\* an image with an alpha channel was compared with the image hide_message
\* wrote from it: 96 channels, some of them changed
DiffStatisticsWitness ==
    /\ AnalyzeCall
    /\ last.kind = "report"
    /\ fs[last.input].mode = "RGBA"
    /\ hidden[last.output].applied
    /\ last.report.total_channels = 96
    /\ last.report.changed_channels > 0
    /\ last.report.avg_abs_diff.num > last.report.avg_abs_diff.den

\* C24: the progress callback never affects results.  hide_message called
\* with a progress callback ends as the same call without one does, with
\* the same report and the same files; the callback is invoked only at pixel
\* indexes that are multiples of 10000 and only while payload bits remain
\* to be written.
ProgressNeverAffectsResults ==
    [][(last'.op = "hide" /\ last'.callback.given)
       => LET plain == hide_message(fs, last'.input, last'.message,
                                    last'.password, last'.bits_per_channel)
          IN  /\ last'.kind = plain.kind
              /\ last'.report = plain.report
              /\ fs' = IF plain.kind = "report"
                       THEN [fs EXCEPT ![last'.output] = plain.encoded]
                       ELSE fs
              /\ \A k \in 1..Len(last'.calls) :
                     /\ last'.calls[k][1] % 10000 = 0
                     /\ last'.calls[k][1] * 3 * last'.bits_per_channel
                           < 8 * Len(last'.bytes)]_vars

\* the step runs an action of the menu to its end
ActionStep == last.pc = "action" /\ last'.pc # "action"

\* the exception is a ValueError or an OSError
InputOrFileError(exception) ==
    IsInstance(exception, "ValueError") \/ IsInstance(exception, "OSError")

\* C25 as stated: a ValueError or OSError raised by an action is reported
\* and control returns to the menu without the action being run again; any
\* other exception is re-raised and ends the loop; otherwise the loop ends
\* only when the choice is q.
FailuresSurfacedOnce ==
    [][/\ (ActionStep /\ InputOrFileError(last'.exception))
          => /\ last'.handled = "reported"
             /\ last'.pc = "menu"
             /\ last'.runs = 1
       /\ (ActionStep /\ last'.exception # "none"
                      /\ ~InputOrFileError(last'.exception))
          => /\ last'.handled = "reraised"
             /\ last'.pc = "ended"
       /\ (last.pc # "ended" /\ last'.pc = "ended")
          => \/ last'.handled = "reraised"
             \/ last'.choice = "q"]_vars

\* C25: a ValueError or OSError raised by an action is reported and control
\* returns to the menu without the action being run again; a
\* KeyboardInterrupt raised by an action is answered with a warning and
\* control returns to the menu; any other exception raised by an action is
\* re-raised and ends the loop; otherwise the loop ends only when the
\* choice is q or when the menu prompt itself raises.
FailuresSurfacedOnceAmended ==
    [][/\ (ActionStep /\ InputOrFileError(last'.exception))
          => /\ last'.handled = "reported"
             /\ last'.pc = "menu"
             /\ last'.runs = 1
       /\ (ActionStep /\ last'.exception = "KeyboardInterrupt")
          => /\ last'.handled = "warned"
             /\ last'.pc = "menu"
             /\ last'.runs = 1
       /\ (ActionStep /\ last'.exception \notin {"none", "KeyboardInterrupt"}
                      /\ ~InputOrFileError(last'.exception))
          => /\ last'.handled = "reraised"
             /\ last'.pc = "ended"
             /\ last'.exit = "raised"
       /\ (ActionStep /\ last'.exception = "none") => last'.pc = "menu"
       /\ (last.pc # "ended" /\ last'.pc = "ended")
          => \/ ActionStep /\ last'.handled = "reraised"
             \/ last.pc = "menu" /\ last'.choice = "q" /\ last'.exit = "quit"
             \/ last.pc = "menu" /\ last'.exit = "raised"
       /\ last.pc = "ended" => last' = last]_vars

\* the capacity error of hide_message was reported and the menu is shown
\* again, the action having run once
FailuresSurfacedWitness ==
    /\ last.pc = "menu"
    /\ last.choice = "1"
    /\ last.kind = "capacity_error"
    /\ last.exception = "ValueError"
    /\ last.handled = "reported"
    /\ last.runs = 1

\* C26: last write wins.  After any chain of successful hide_message calls,
\* each on the output of the call before, extract_message on the final
\* output with the password and bits_per_channel of the last call returns
\* the message of the last call.
LastWriteWins ==
    (/\ last.op = "extract"
     /\ last.input = ChainHead
     /\ hidden[ChainHead].applied
     /\ last.password = hidden[ChainHead].password
     /\ last.bits_per_channel = hidden[ChainHead].bits_per_channel)
    => /\ last.kind = "text"
       /\ last.text = hidden[ChainHead].message

\* an empty message hidden with one bit per channel over a three-byte
\* message hidden with two bits per channel and a password, then extracted
LastWriteWinsWitness ==
    /\ last.op = "extract"
    /\ last.input = "cover.png"
    /\ hidden["cover.png"].chain = 2
    /\ hidden["cover.png"].message = <<>>
    /\ hidden["cover.png"].bits_per_channel = 1
    /\ hidden["cover.png"].password = NoPassword
    /\ hidden["stego.png"].message = <<65, 233>>
    /\ hidden["stego.png"].bits_per_channel = 2
    /\ hidden["stego.png"].password = Pw("cp")
    /\ last.password = NoPassword
    /\ last.bits_per_channel = 1
    /\ last.kind = "text"
    /\ last.text = <<>>

\* a hide_message call that succeeds on the output of a successful call with
\* the same message, password and bits_per_channel
ReembedStep ==
    /\ last.op = "none"
    /\ last'.op = "hide"
    /\ last'.kind = "report"
    /\ hidden[last'.input].applied
    /\ hidden[last'.input].message = last'.message
    /\ hidden[last'.input].password = last'.password
    /\ hidden[last'.input].bits_per_channel = last'.bits_per_channel

\* C27: re-embedding is idempotent.  hide_message applied to its own output
\* with the same message, password and bits_per_channel writes a pixel
\* buffer identical to its input and reports pixels_touched = 0 and the
\* payload_bits and capacity_bits of the first call.
ReembedIdempotent ==
    [][ReembedStep =>
          /\ fs'[last'.output].data = fs[last'.input].data
          /\ last'.report.pixels_touched = 0
          /\ last'.report.payload_bits = hidden[last'.input].report.payload_bits
          /\ last'.report.capacity_bits = hidden[last'.input].report.capacity_bits]_vars

\* a three-byte message hidden twice with a password and two bits per
\* channel, the second time in the output of the first
ReembedWitness ==
    /\ last.op = "hide"
    /\ last.kind = "report"
    /\ last.message = <<65, 233>>
    /\ last.password = Pw("cp")
    /\ last.bits_per_channel = 2
    /\ hidden[last.input].applied
    /\ hidden[last.input].message = last.message
    /\ hidden[last.input].password = last.password
    /\ hidden[last.input].bits_per_channel = last.bits_per_channel
    /\ hidden[last.output].chain = 2
    /\ fs[last.output].data = fs[last.input].data
    /\ last.report.pixels_touched = 0
    /\ last.report.payload_bits = 112

\* the bits of the pixel walk that make the payload region of an image:
\* the first 88 + 8 * declared_length, or every bit of the walk when the
\* image ends before that (inside is FALSE then)
PayloadRegionOf(image, bits_per_channel) ==
    LET prepared == _prepare_image(image)
        bits == extract_lsb_bits(prepared.working.data,
                                 prepared.metadata.embed_indexes, bits_per_channel)
        header == bits_to_bytes(bits, 0, HEADER_SIZE * 8)
        whole == [bits |-> Len(bits), inside |-> FALSE]
    IN  IF ~header.ok THEN whole
        ELSE IF header.bytes[8] > 0 \/ header.bytes[9] > 0 THEN whole
        ELSE LET declared_length == header.bytes[10] * 256 + header.bytes[11]
                 region == HEADER_SIZE * 8 + 8 * declared_length
             IN  IF region > Len(bits) THEN whole
                 ELSE [bits |-> region, inside |-> TRUE]

PayloadRegion(image, bits_per_channel) ==
    PayloadRegionOf(image, bits_per_channel).bits

\* a channel value with every bit above the low bits_per_channel bits flipped
FlipHigherBits(value, bits_per_channel) ==
    AndMask(value, Pow2(bits_per_channel) - 1)
    + AndNotMask(255 - value, Pow2(bits_per_channel) - 1)

\* the ways in which a second image differs from the first outside the
\* payload region
Retouches == {"higher_bits", "alpha", "later_pixels", "everything", "more_pixels"}

\* the pixel of the second image at place i: colour channel c of pixel i
\* holds the bits of the walk from (3 * (i - 1) + c - 1) * bits_per_channel
\* on, a grey channel those of all three colour channels
RetouchPixel(image, bits_per_channel, region, retouch, i) ==
    LET bands == getbands(image)
        pixel == image.data[i]
        first_bit(c) == IF bands[c] = "L"
                        THEN 3 * (i - 1) * bits_per_channel
                        ELSE (3 * (i - 1) + c - 1) * bits_per_channel
        higher(v) == IF retouch \in {"higher_bits", "everything"}
                     THEN FlipHigherBits(v, bits_per_channel) ELSE v
    IN  [c \in 1..Len(pixel) |->
            IF bands[c] = "A"
            THEN IF retouch \in {"alpha", "everything"}
                 THEN 255 - pixel[c] ELSE pixel[c]
            ELSE IF first_bit(c) >= region
            THEN IF retouch \in {"later_pixels", "everything"}
                 THEN 255 - pixel[c] ELSE higher(pixel[c])
            ELSE higher(pixel[c])]

\* a second image that agrees with the first on the low bits of the payload
\* region; one more row of pixels is added only behind a region that ends
\* inside the image
Retouched(image, bits_per_channel, retouch) ==
    LET region == PayloadRegionOf(image, bits_per_channel)
    IN  IF retouch = "more_pixels"
        THEN IF region.inside
             THEN [image EXCEPT
                      !.height = @ + 1,
                      !.data = @ \o [i \in 1..image.width |->
                                        [c \in 1..Len(image.data[i]) |->
                                            255 - image.data[i][c]]]]
             ELSE image
        ELSE [image EXCEPT !.data =
                 [i \in 1..Len(image.data) |->
                     RetouchPixel(image, bits_per_channel, region.bits, retouch, i)]]

\* a call of extract_message that has opened its image
ExtractStep ==
    /\ last.op = "none"
    /\ last'.op = "extract"
    /\ last'.bits_per_channel \in MIN_BITS_PER_CHANNEL..MAX_BITS_PER_CHANNEL
    /\ fs[last'.input] # NoFile

\* C28: extract_message reads only the payload region.  An image that
\* agrees with the extracted one on the low bits_per_channel bits of the
\* colour channels within the first 88 + 8 * declared_length bits of the
\* walk, and differs in higher bits, alpha values or later pixels, gives the
\* same string or the same error for the same password.
ExtractReadsOnlyRegion ==
    [][ExtractStep =>
          \A retouch \in Retouches :
             LET second == Retouched(fs[last'.input], last'.bits_per_channel,
                                     retouch)
                 r == extract_message([fs EXCEPT ![last'.input] = second],
                                      last'.input, last'.password,
                                      last'.bits_per_channel)
             IN  /\ r.kind = last'.kind
                 /\ r.text = last'.text]_vars

\* a message extracted from a colour image with alpha whose payload region
\* ends inside the image, so that all retouches change the image
ExtractReadsOnlyRegionWitness ==
    /\ last.op = "extract"
    /\ last.input = "stego.png"
    /\ last.kind = "text"
    /\ last.text = <<233>>
    /\ last.password = Pw("cp")
    /\ last.bits_per_channel = 2
    /\ fs["stego.png"].mode = "RGBA"
    /\ PayloadRegion(fs["stego.png"], 2) = 88 + 16
    /\ \A retouch \in Retouches :
          Retouched(fs["stego.png"], 2, retouch) # fs["stego.png"]
    /\ Retouched(fs["stego.png"], 2, "later_pixels").data[32][1] % 2
           # fs["stego.png"].data[32][1] % 2

\* a successful call of hide_message
HideSucceeds ==
    /\ last.op = "none"
    /\ last'.op = "hide"
    /\ last'.kind = "report"

\* a call of extract_message, with any password, on the output of a
\* successful hide_message and with its bits_per_channel
ExtractFromHidden ==
    /\ last.op = "none"
    /\ last'.op = "extract"
    /\ hidden[last'.input].applied
    /\ last'.bits_per_channel = hidden[last'.input].bits_per_channel

\* C29: the header does not depend on the password.  For the message of a
\* successful hide_message, the first 11 payload bytes and the payload
\* length are the same for every password; extract_message on the output
\* with any password or none returns a string or fails UTF-8 decoding, and
\* never fails with the magic mismatch or the truncation error.
HeaderIgnoresPassword ==
    [][(HideSucceeds =>
           \A password \in Passwords :
              LET payload == build_payload(last'.message, password)
              IN  /\ Slice(payload, 0, HEADER_SIZE)
                        = Slice(last'.bytes, 0, HEADER_SIZE)
                  /\ Len(payload) = Len(last'.bytes))
       /\ (ExtractFromHidden => last'.kind \in {"text", "decode_error"})]_vars

\* a two-byte message hidden with a password and extracted without one:
\* the header is accepted and the body fails UTF-8 decoding
HeaderIgnoresPasswordWitness ==
    /\ last.op = "extract"
    /\ hidden[last.input].applied
    /\ last.bits_per_channel = hidden[last.input].bits_per_channel
    /\ hidden[last.input].password = Pw("cp")
    /\ hidden[last.input].message = <<233>>
    /\ last.password = NoPassword
    /\ last.kind = "decode_error"

\* analyze_images has compared the source of a successful hide_message
\* with its output
AnalyzeHidden ==
    /\ last.op = "analyze"
    /\ last.input = "cover.png"
    /\ last.output = "stego.png"
    /\ hidden["stego.png"].applied

\* the EmbedReport of the call that has written stego.png
HiddenReport ==
    hide_message(fs, "cover.png", hidden["stego.png"].message,
                 hidden["stego.png"].password,
                 hidden["stego.png"].bits_per_channel).report

\* C30: distortion bound across hide and analyze.  After a successful
\* hide_message with bits_per_channel = n, analyze_images(source, output)
\* reports max_abs_diff <= 2^n - 1, changed_channels <= ceil(payload_bits / n)
\* and pixels_touched <= changed_channels <= 3 * pixels_touched, with
\* payload_bits and pixels_touched those of the EmbedReport.
DistortionBound ==
    AnalyzeHidden =>
        LET embed == HiddenReport
            n == hidden["stego.png"].bits_per_channel
        IN  /\ last.kind = "report"
            /\ last.report.max_abs_diff <= Pow2(n) - 1
            /\ last.report.changed_channels <= CeilDiv(embed.payload_bits, n)
            /\ embed.pixels_touched <= last.report.changed_channels
            /\ last.report.changed_channels <= 3 * embed.pixels_touched

\* a hide with two bits per channel that has changed a channel by 3, and
\* more channels than pixels
DistortionBoundWitness ==
    /\ AnalyzeHidden
    /\ hidden["stego.png"].bits_per_channel = 2
    /\ last.kind = "report"
    /\ last.report.max_abs_diff = 3
    /\ HiddenReport.pixels_touched > 0
    /\ HiddenReport.pixels_touched < last.report.changed_channels

====
